---- MODULE Spec2Model ----
(***************************************************************************)
(* A model of thriftrw's Thrift Binary Protocol codec and of the spec     *)
(* tree's value bridge (thriftrw/_buffer.pyx, thriftrw/protocol/binary.pyx,*)
(* thriftrw/spec/*.pyx).                                                   *)
(*                                                                         *)
(* Bytes are the integers 0..255 and byte strings are sequences of them.  *)
(* Fixed-width integers keep their width: every conversion to or from     *)
(* bytes is two's complement and big-endian, as htobe16/htobe32 and the   *)
(* int8_t/int16_t/int32_t casts of the source make it.                    *)
(***************************************************************************)
EXTENDS Integers, Sequences, FiniteSets, TLC

VARIABLES
  rb_data,     \* ReadBuffer.data: the bytes the buffer was constructed over
  rb_offset,   \* ReadBuffer.offset
  rb_last,     \* what the last call on the ReadBuffer was and what it returned
  msg,         \* the MessageHeader handed to write_message_begin
  wb,          \* WriteBuffer.value: the bytes written so far
  pc,          \* position of the codec scenario
  tspec,       \* the TypeSpec the scenario is about
  hval,        \* the host value (or constructor arguments) of the scenario
  res,         \* results of the scenario's operations
  py,          \* major version of the Python the extension is built for (2 or 3)
  heap,        \* the mutable Python objects: heap[ref] is the items of list ref
  insts        \* the struct instances made: the object each holds in its field

vars == <<rb_data, rb_offset, rb_last, msg, wb, pc, tspec, hval, res, py, heap, insts>>

(***************************************************************************)
(* Bounds of the model.                                                    *)
(***************************************************************************)
MaxBufLen == 3      \* longest ReadBuffer content of the buffer scenario
MaxCount == 4       \* largest count passed to read / take / skip

(***************************************************************************)
(* Fixed-width integers.                                                   *)
(***************************************************************************)
Byte == 0..255

\* <int8_t>c : the signed value of one byte
ToI8(b) == IF b >= 128 THEN b - 256 ELSE b

\* write_byte: the one byte of an int8_t
EncI8(v) == <<v % 256>>

\* write_i16: htobe16, two bytes
EncI16(v) == <<(v \div 256) % 256, v % 256>>

\* write_i32: htobe32, four bytes
EncI32(v) ==
  <<(v \div 16777216) % 256, (v \div 65536) % 256, (v \div 256) % 256, v % 256>>

\* be16toh of two bytes, as an int16_t
DecI16(s) == ToI8(s[1]) * 256 + s[2]

\* be32toh of four bytes, as an int32_t
DecI32(s) == ToI8(s[1]) * 16777216 + s[2] * 65536 + s[3] * 256 + s[4]

(***************************************************************************)
(* ReadBuffer.  Each operation is a function of (data, offset, count) and *)
(* returns the error raised ("ok" for none), the bytes returned and the   *)
(* offset it leaves.                                                       *)
(***************************************************************************)
Ok(val, o) == [err |-> "ok", val |-> val, o |-> o]
Fail(e, o) == [err |-> e, val |-> <<>>, o |-> o]

\* An exception propagates: once a step has failed the steps after it do
\* not run and its error is the result; otherwise the next step runs on
\* what the step returned.
Then(r, next(_)) == IF r.err # "ok" THEN r ELSE next(r)

ReadBuffer_available(data, offset) == Len(data) - offset

ReadBuffer_take_OffByOne(data, offset, count) ==
  IF count >= Len(data) - offset
    THEN Fail("EndOfInputError", offset)
    ELSE Ok(SubSeq(data, offset + 1, offset + count), offset + count)

\* a negative count passes the guard; the slice data[offset:offset + count]
\* then asks for a bytes object of negative size, which raises SystemError
\* before the offset is touched
ReadBuffer_take(data, offset, count) ==
  IF count > Len(data) - offset
    THEN Fail("EndOfInputError", offset)
    ELSE IF count < 0
      THEN Fail("SystemError", offset)
      ELSE Ok(SubSeq(data, offset + 1, offset + count), offset + count)

ReadBuffer_read(data, offset, count) ==
  IF count > Len(data) - offset
    THEN Fail("EndOfInputError", offset)
    ELSE Ok(SubSeq(data, offset + 1, offset + count), offset + count)

ReadBuffer_skip(data, offset, count) ==
  IF count > Len(data) - offset
    THEN Fail("EndOfInputError", offset)
    ELSE Ok(<<>>, offset + count)

(***************************************************************************)
(* BinaryProtocolReader: the primitive reads.  Each takes the buffer's    *)
(* data and offset and returns Ok(value, new offset) or the error raised. *)
(***************************************************************************)
Reader_byte(d, o) ==
  Then(ReadBuffer_read(d, o, 1), LAMBDA r : Ok(ToI8(r.val[1]), r.o))

Reader_i16(d, o) ==
  Then(ReadBuffer_read(d, o, 2), LAMBDA r : Ok(DecI16(r.val), r.o))

Reader_i32(d, o) ==
  Then(ReadBuffer_read(d, o, 4), LAMBDA r : Ok(DecI32(r.val), r.o))

read_binary(d, o) ==
  Then(Reader_i32(d, o), LAMBDA n : ReadBuffer_take(d, n.o, n.val))

\* a skip_binary that would skip the length and leave the bytes
skip_binary_LengthOnly(d, o) ==
  Then(Reader_i32(d, o), LAMBDA n : Ok(<<>>, n.o))

skip_binary(d, o) ==
  Then(Reader_i32(d, o), LAMBDA n : ReadBuffer_skip(d, n.o, n.val))

(***************************************************************************)
(* Message envelopes.                                                      *)
(***************************************************************************)
VERSION == 1

\* (size & VERSION_MASK) >> 16 of a negative int32_t: bits 16..30
VersionOf(size) == (size \div 65536) % 32768

\* <int8_t>(size & TYPE_MASK)
TypeOf(size) == ToI8(size % 256)

\* BinaryProtocolWriter.write_binary(value, length): len:4 str:len
write_binary(value) == EncI32(Len(value)) \o value

\* The strict envelope (0x80010000 | type):i32 name~4 seqid:4
StrictWord(version, mid, type) ==
  (0 - 128) * 16777216 + version * 65536 + mid * 256 + (type % 256)

write_message_begin_Strict(m) ==
  EncI32(StrictWord(VERSION, 0, m.type)) \o write_binary(m.name) \o EncI32(m.seqid)

\* a writer that would put the type byte before the name
write_message_begin_TypeFirst(m) ==
  EncI8(m.type) \o write_binary(m.name) \o EncI32(m.seqid)

\* BinaryProtocolWriter.write_message_begin
write_message_begin(m) ==
  write_binary(m.name) \o EncI8(m.type) \o EncI32(m.seqid)

MessageHeader(name, type, seqid) == [name |-> name, type |-> type, seqid |-> seqid]

read_message_begin_AnyVersion(d, o) ==
  LET s == Reader_i32(d, o)
  IN  IF s.err # "ok" THEN s
      ELSE IF s.val < 0
        THEN LET n == read_binary(d, s.o)
             IN  IF n.err # "ok" THEN n
                 ELSE LET q == Reader_i32(d, n.o)
                      IN  IF q.err # "ok" THEN q
                          ELSE Ok(MessageHeader(n.val, TypeOf(s.val), q.val), q.o)
        ELSE LET n == ReadBuffer_take(d, s.o, s.val)
             IN  IF n.err # "ok" THEN n
                 ELSE LET t == Reader_byte(d, n.o)
                      IN  IF t.err # "ok" THEN t
                          ELSE LET q == Reader_i32(d, t.o)
                               IN  IF q.err # "ok" THEN q
                                   ELSE Ok(MessageHeader(n.val, t.val, q.val), q.o)

\* BinaryProtocolReader.read_message_begin
read_message_begin(d, o) ==
  LET s == Reader_i32(d, o)
  IN  IF s.err # "ok" THEN s
      ELSE IF s.val < 0
        THEN IF VersionOf(s.val) # VERSION
               THEN Fail("ThriftProtocolError", s.o)
               ELSE LET n == read_binary(d, s.o)
                    IN  IF n.err # "ok" THEN n
                        ELSE LET q == Reader_i32(d, n.o)
                             IN  IF q.err # "ok" THEN q
                                 ELSE Ok(MessageHeader(n.val, TypeOf(s.val), q.val), q.o)
        ELSE LET n == ReadBuffer_take(d, s.o, s.val)
             IN  IF n.err # "ok" THEN n
                 ELSE LET t == Reader_byte(d, n.o)
                      IN  IF t.err # "ok" THEN t
                          ELSE LET q == Reader_i32(d, t.o)
                               IN  IF q.err # "ok" THEN q
                                   ELSE Ok(MessageHeader(n.val, t.val, q.val), q.o)

(***************************************************************************)
(* Scenario 1: a ReadBuffer under arbitrary read / take / skip calls.     *)
(***************************************************************************)
BufBytes == {0, 7, 255}

RECURSIVE SeqsUpTo(_, _)
SeqsUpTo(S, n) ==
  IF n = 0 THEN {<<>>}
  ELSE LET shorter == SeqsUpTo(S, n - 1)
       IN  shorter \cup {Append(q, x) : q \in {r \in shorter : Len(r) = n - 1}, x \in S}

NoCall == [op |-> "none", n |-> 0, before |-> 0, err |-> "ok", val |-> <<>>]

Idle == <<>>

InitBuf ==
  /\ rb_data \in SeqsUpTo(BufBytes, MaxBufLen)
  /\ rb_offset = 0
  /\ rb_last = NoCall
  /\ msg = Idle /\ wb = Idle /\ pc = "buf" /\ tspec = Idle /\ hval = Idle /\ res = Idle /\ py = Idle
  /\ heap = Idle /\ insts = Idle

Called(op, n, r) ==
  /\ rb_last' = [op |-> op, n |-> n, before |-> rb_offset, err |-> r.err, val |-> r.val]
  /\ rb_offset' = r.o
  /\ UNCHANGED <<rb_data, msg, wb, pc, tspec, hval, res, py, heap, insts>>

Read(n) == pc = "buf" /\ Called("read", n, ReadBuffer_read(rb_data, rb_offset, n))

Take(n) == pc = "buf" /\ Called("take", n, ReadBuffer_take(rb_data, rb_offset, n))

Skip(n) == pc = "buf" /\ Called("skip", n, ReadBuffer_skip(rb_data, rb_offset, n))

NextBuf ==
  \/ \E n \in 0..MaxCount : Read(n)
  \/ \E n \in 0..MaxCount : Take(n)
  \/ \E n \in 0..MaxCount : Skip(n)

SpecBuf == InitBuf /\ [][NextBuf]_vars

\* C7: after any read(n), take(n) or skip(n): if n exceeded the bytes available
\* the call failed with EndOfInputError and the offset is where it was;
\* otherwise the call succeeded, read and take returned exactly the n bytes
\* data[offset .. offset+n), and the offset advanced by exactly n.
C7_BoundedReads ==
  rb_last.op # "none" =>
    IF rb_last.n > Len(rb_data) - rb_last.before
      THEN /\ rb_last.err = "EndOfInputError"
           /\ rb_offset = rb_last.before
      ELSE /\ rb_last.err = "ok"
           /\ rb_offset = rb_last.before + rb_last.n
           /\ rb_last.op \in {"read", "take"} =>
                /\ Len(rb_last.val) = rb_last.n
                /\ \A i \in 1..rb_last.n : rb_last.val[i] = rb_data[rb_last.before + i]

\* C7 witness: a take that fits exactly in what is left of a partly consumed
\* buffer, so that the boundary n = available is exercised.
C7_Witness ==
  /\ rb_last.op = "take"
  /\ rb_last.before > 0
  /\ rb_last.n > 0
  /\ rb_last.n = Len(rb_data) - rb_last.before
  /\ rb_last.err = "ok"

(***************************************************************************)
(* Scenario 1b: a ReadBuffer whose counts come from the input.  The       *)
(* buffer holds i32 lengths (negative ones among them) and envelope       *)
(* words; take and skip are called with counts of either sign, and        *)
(* read_binary, skip_binary and read_message_begin decode their counts    *)
(* from the buffer.  read is only ever called with a fixed width.  Calls  *)
(* stop once the offset has left the buffer.                              *)
(***************************************************************************)
MaxChunks == 3     \* how many chunks make up a buffer of this scenario

SignedChunks ==
  {<<7>>, <<255, 255, 255, 255>>, <<255, 255, 255, 0>>, <<128, 1, 0, 1>>, <<0, 0, 0, 1>>}

RECURSIVE ChunkSeqs(_)
ChunkSeqs(n) ==
  IF n = 0 THEN {<<>>}
  ELSE LET shorter == ChunkSeqs(n - 1)
       IN  shorter \cup {q \o c : q \in shorter, c \in SignedChunks}

InitSigned ==
  /\ rb_data \in ChunkSeqs(MaxChunks)
  /\ rb_offset = 0
  /\ rb_last = NoCall
  /\ msg = Idle /\ wb = Idle /\ pc = "buf" /\ tspec = Idle /\ hval = Idle /\ res = Idle /\ py = Idle
  /\ heap = Idle /\ insts = Idle

InBuffer == 0 <= rb_offset /\ rb_offset <= Len(rb_data)

ReadBinary ==
  pc = "buf" /\ InBuffer /\ Called("read_binary", 0, read_binary(rb_data, rb_offset))

SkipBinary ==
  pc = "buf" /\ InBuffer /\ Called("skip_binary", 0, skip_binary(rb_data, rb_offset))

ReadEnvelope ==
  /\ pc = "buf" /\ InBuffer
  /\ LET r == read_message_begin(rb_data, rb_offset)
     IN  Called("read_message_begin", 0, [err |-> r.err, val |-> <<>>, o |-> r.o])

NextSigned ==
  \/ \E n \in {1, 2, 4} : InBuffer /\ Read(n)
  \/ \E n \in (0 - MaxCount)..MaxCount : InBuffer /\ Take(n)
  \/ \E n \in (0 - MaxCount)..MaxCount : InBuffer /\ Skip(n)
  \/ ReadBinary
  \/ SkipBinary
  \/ ReadEnvelope

SpecSigned == InitSigned /\ [][NextSigned]_vars

\* C27: after any sequence of read, take and skip calls, those of
\* read_binary, skip_binary and read_message_begin with a count decoded
\* from the input included, the offset lies within 0..length and no call
\* has moved it backwards
C27_OffsetInvariant ==
  /\ 0 <= rb_offset
  /\ rb_offset <= Len(rb_data)
  /\ rb_last.before <= rb_offset

\* what does hold: a call leaves the offset within the buffer and does not
\* move it backwards unless it is a skip whose count is negative (given to
\* skip, or decoded by skip_binary)
C27_OffsetButNegativeSkip ==
  rb_last.op \notin {"skip", "skip_binary"} => C27_OffsetInvariant

\* C27 divergence: skip_binary at the start of a buffer decoded the
\* length -256 and left the offset at 4 - 256, before the buffer's start
C27_Divergence ==
  /\ rb_last.op = "skip_binary"
  /\ rb_last.before = 0
  /\ rb_last.err = "ok"
  /\ SubSeq(rb_data, 1, 4) = <<255, 255, 255, 0>>
  /\ rb_offset = 0 - 252

\* C27, the same through skip itself: skip(-1) after two bytes were read
\* succeeded and moved the offset back to 1
C27_DivergenceSkip ==
  /\ rb_last.op = "skip"
  /\ rb_last.n = 0 - 1
  /\ rb_last.before = 2
  /\ rb_last.err = "ok"
  /\ rb_offset = 1

\* C27: take with a negative count raises (not EndOfInputError) and leaves
\* the offset, so read_binary over a negative length stops after the length
C27_TakeRaises ==
  /\ rb_last.op = "read_binary"
  /\ rb_last.err = "SystemError"
  /\ rb_offset = rb_last.before + 4

(***************************************************************************)
(* Scenario 1c: a WriteBuffer under write_bytes and clear.  `wb` is the   *)
(* buffer: the bytes stored in its block so far, its length and its free  *)
(* capacity; `res` keeps what has been written since the last clear and   *)
(* `rb_last` the call made last and the accounting before it.             *)
(***************************************************************************)
MaxTotal == 6      \* most bytes a WriteBuffer of this scenario holds

DEFAULT_CAPACITY == 4096

InitCapacities == {0, 1, 3}
WriteChunks == {<<>>, <<7>>, <<0, 255>>, <<7, 0, 255>>, <<1, 2, 3, 4, 5>>}

\* WriteBuffer.__cinit__
WriteBuffer_cinit(init_capacity) ==
  LET cap == IF init_capacity # 0 THEN init_capacity ELSE DEFAULT_CAPACITY
  IN  [data |-> <<>>, length |-> 0, capacity |-> cap]

\* WriteBuffer.clear
WriteBuffer_clear(b) ==
  LET capacity == b.length + b.capacity
  IN  [b EXCEPT !.length = 0, !.capacity = capacity]

\* an ensure_capacity that would only ever double
WriteBuffer_ensure_capacity_DoubleOnly(b, min_bytes) ==
  IF min_bytes <= b.capacity
    THEN b
    ELSE [b EXCEPT !.capacity = b.length * 2 - b.length]

\* WriteBuffer.ensure_capacity; the block keeps its contents when it is
\* reallocated
WriteBuffer_ensure_capacity(b, min_bytes) ==
  IF min_bytes <= b.capacity
    THEN b
    ELSE LET doubled == b.length * 2
             new_total_length ==
               IF doubled - b.length < min_bytes THEN doubled + min_bytes ELSE doubled
         IN  [b EXCEPT !.capacity = new_total_length - b.length]

\* memcpy(self.data + self.length, data, count)
StoreAt(block, at, data, count) ==
  SubSeq(block, 1, at) \o SubSeq(data, 1, count)
    \o SubSeq(block, at + count + 1, Len(block))

\* WriteBuffer.write
WriteBuffer_write(b, data, count) ==
  LET e == WriteBuffer_ensure_capacity(b, count)
  IN  [data |-> StoreAt(e.data, e.length, data, count),
       length |-> e.length + count,
       capacity |-> e.capacity - count]

\* WriteBuffer.write_bytes
WriteBuffer_write_bytes(b, data) == WriteBuffer_write(b, data, Len(data))

\* WriteBuffer.value
WriteBuffer_value(b) == SubSeq(b.data, 1, b.length)

InitWriteBuffer ==
  /\ \E init_capacity \in InitCapacities : wb = WriteBuffer_cinit(init_capacity)
  /\ res = <<>>
  /\ rb_last = [op |-> "none", n |-> 0, length |-> 0, capacity |-> 0]
  /\ pc = "wbuf"
  /\ rb_data = Idle /\ rb_offset = 0 /\ msg = Idle /\ tspec = Idle /\ hval = Idle /\ py = Idle
  /\ heap = Idle /\ insts = Idle

WriteBytes(data) ==
  /\ pc = "wbuf"
  /\ wb.length + Len(data) <= MaxTotal
  /\ wb' = WriteBuffer_write_bytes(wb, data)
  /\ res' = res \o data
  /\ rb_last' = [op |-> "write", n |-> Len(data), length |-> wb.length, capacity |-> wb.capacity]
  /\ UNCHANGED <<rb_data, rb_offset, msg, pc, tspec, hval, py, heap, insts>>

Clear ==
  /\ pc = "wbuf"
  /\ wb' = WriteBuffer_clear(wb)
  /\ res' = <<>>
  /\ rb_last' = [op |-> "clear", n |-> 0, length |-> wb.length, capacity |-> wb.capacity]
  /\ UNCHANGED <<rb_data, rb_offset, msg, pc, tspec, hval, py, heap, insts>>

NextWriteBuffer ==
  \/ \E data \in WriteChunks : WriteBytes(data)
  \/ Clear

SpecWriteBuffer == InitWriteBuffer /\ [][NextWriteBuffer]_vars

\* the size of the block before the last call
C28_AllocatedBefore == rb_last.length + rb_last.capacity

\* C28: after any sequence of write and clear calls, value is the
\* concatenation of what was written since the last clear (empty right
\* after a clear), length is its byte count, capacity is not negative and
\* length + capacity has not decreased: clear leaves it as it was, and a
\* write of more bytes than were free makes it twice the length the buffer
\* had, plus the byte count when the length alone is less than the count
C28_Accounting ==
  /\ WriteBuffer_value(wb) = res
  /\ wb.length = Len(res)
  /\ wb.capacity >= 0
  /\ rb_last.op # "none" => wb.length + wb.capacity >= C28_AllocatedBefore
  /\ rb_last.op = "clear" =>
       /\ WriteBuffer_value(wb) = <<>>
       /\ wb.length + wb.capacity = C28_AllocatedBefore
  /\ (rb_last.op = "write" /\ rb_last.n > rb_last.capacity) =>
       wb.length + wb.capacity =
         IF rb_last.length >= rb_last.n
           THEN 2 * rb_last.length
           ELSE 2 * rb_last.length + rb_last.n

\* C28 witness: a write into a buffer that held 3 bytes and had no room
\* for 2 more doubled the block to 6 bytes
C28_Witness ==
  /\ rb_last.op = "write"
  /\ rb_last.length = 3
  /\ rb_last.n = 2
  /\ rb_last.capacity < 2
  /\ wb.length = 5
  /\ wb.capacity = 1
  /\ WriteBuffer_value(wb) = res

\* C28 witness: a write after a clear went over what the earlier writes
\* had left in the block, and needed the block to grow by its byte count
C28_WitnessAfterClear ==
  /\ rb_last.op = "write"
  /\ rb_last.length = 0
  /\ rb_last.n = 5
  /\ rb_last.capacity \in 1..4
  /\ Len(wb.data) = 5
  /\ wb.length + wb.capacity = 5
  /\ WriteBuffer_value(wb) = <<1, 2, 3, 4, 5>>

(***************************************************************************)
(* Scenario 2: message envelopes.  A header is written with               *)
(* write_message_begin; a reader is opened over an envelope image (what   *)
(* the writer wrote, or a strict or non-strict image of the same header,  *)
(* possibly cut short) followed by a one-byte body, and                   *)
(* read_message_begin is called on it.                                    *)
(***************************************************************************)
MaxCut == 2        \* how many bytes an envelope image may be cut short by

GetFoo == <<103, 101, 116, 70, 111, 111>>
MsgNames == {<<>>, <<120>>, GetFoo}
MsgTypes == {1, 2, 3, 4, 0 - 1}
MsgSeqIds == {0, 10, 0 - 2}
Headers == {MessageHeader(n, t, q) : n \in MsgNames, t \in MsgTypes, q \in MsgSeqIds}
MsgBody == <<0>>

StrictImage(m, version, mid) ==
  EncI32(StrictWord(version, mid, m.type)) \o write_binary(m.name) \o EncI32(m.seqid)

NonStrictImage(m) == write_binary(m.name) \o EncI8(m.type) \o EncI32(m.seqid)

CutShort(image, cut) == SubSeq(image, 1, Len(image) - cut)

InitMsg ==
  /\ msg \in Headers
  /\ wb = <<>>
  /\ pc = "msg_start"
  /\ rb_data = <<>> /\ rb_offset = 0 /\ rb_last = NoCall
  /\ tspec = Idle /\ hval = Idle /\ res = Idle /\ py = Idle
  /\ heap = Idle /\ insts = Idle

WriteMessageBegin ==
  /\ pc = "msg_start"
  /\ wb' = wb \o write_message_begin(msg)
  /\ pc' = "msg_written"
  /\ UNCHANGED <<rb_data, rb_offset, rb_last, msg, tspec, hval, res, py, heap, insts>>

Open(image) ==
  /\ rb_data' = image
  /\ rb_offset' = 0
  /\ pc' = "msg_open"
  /\ UNCHANGED <<rb_last, msg, wb, tspec, hval, res, py, heap, insts>>

OpenWritten == pc = "msg_written" /\ Open(wb \o MsgBody)

OpenStrict(version, mid, cut) ==
  pc = "msg_start" /\ Open(CutShort(StrictImage(msg, version, mid) \o MsgBody, cut))

OpenNonStrict(cut) ==
  pc = "msg_start" /\ Open(CutShort(NonStrictImage(msg) \o MsgBody, cut))

ReadMessageBegin ==
  /\ pc = "msg_open"
  /\ LET r == read_message_begin(rb_data, rb_offset)
     IN  /\ res' = r
         /\ rb_offset' = r.o
  /\ pc' = "msg_read"
  /\ UNCHANGED <<rb_data, rb_last, msg, wb, tspec, hval, py, heap, insts>>

NextMsg ==
  \/ WriteMessageBegin
  \/ OpenWritten
  \/ \E version \in {0, 1, 2}, mid \in {0, 1}, cut \in 0..MaxCut :
       OpenStrict(version, mid, cut)
  \/ \E cut \in 0..MaxCut : OpenNonStrict(cut)
  \/ ReadMessageBegin

SpecMsg == InitMsg /\ [][NextMsg]_vars

C4_BothForms ==
  pc = "msg_read" =>
    IF Len(rb_data) < 4 THEN res.err = "EndOfInputError"
    ELSE
      LET s == DecI32(SubSeq(rb_data, 1, 4))
      IN  IF s < 0
            THEN IF (s \div 65536) % 32768 # 1
                   THEN res.err = "ThriftProtocolError"
                   ELSE IF Len(rb_data) < 8 THEN res.err = "EndOfInputError"
                   ELSE LET L == DecI32(SubSeq(rb_data, 5, 8))
                        IN  IF Len(rb_data) < 12 + L THEN res.err = "EndOfInputError"
                            ELSE /\ res.err = "ok"
                                 /\ res.val.name = SubSeq(rb_data, 9, 8 + L)
                                 /\ res.val.type \in (0 - 128)..127
                                 /\ res.val.type % 256 = s % 256
                                 /\ res.val.seqid = DecI32(SubSeq(rb_data, 9 + L, 12 + L))
                                 /\ rb_offset = 12 + L
            ELSE IF Len(rb_data) < 4 + s + 1 + 4 THEN res.err = "EndOfInputError"
                 ELSE /\ res.err = "ok"
                      /\ res.val.name = SubSeq(rb_data, 5, 4 + s)
                      /\ res.val.type \in (0 - 128)..127
                      /\ res.val.type % 256 = rb_data[5 + s]
                      /\ res.val.seqid = DecI32(SubSeq(rb_data, 6 + s, 9 + s))
                      /\ rb_offset = 9 + s

\* C4 witness: a complete strict envelope of version 1 was read and the
\* reader stands at the one-byte body that follows it.
C4_Witness ==
  /\ pc = "msg_read"
  /\ res.err = "ok"
  /\ rb_data[1] = 128
  /\ res.val = msg
  /\ rb_offset = Len(rb_data) - Len(MsgBody)

\* the reader was opened over exactly what write_message_begin wrote,
\* followed by the body
C26_WrittenRead ==
  /\ pc = "msg_read"
  /\ wb # <<>>
  /\ rb_data = wb \o MsgBody

\* C26: for every header whose type is CALL(1), REPLY(2), EXCEPTION(3) or
\* ONEWAY(4), read_message_begin over the bytes of write_message_begin
\* returns the same name, type and seqid and consumes exactly the bytes
\* that were written
C26_EnvelopeRoundTrip ==
  (C26_WrittenRead /\ msg.type \in {1, 2, 3, 4}) =>
    /\ res.err = "ok"
    /\ res.val.name = msg.name
    /\ res.val.type = msg.type
    /\ res.val.seqid = msg.seqid
    /\ rb_offset = Len(wb)

\* C26 witness: a ONEWAY header with an empty name and a negative seqid
\* has been written and read back, the body byte left unread
C26_Witness ==
  /\ C26_WrittenRead
  /\ msg = MessageHeader(<<>>, 4, 0 - 2)
  /\ res.err = "ok"
  /\ res.val = msg
  /\ rb_offset = 9
  /\ Len(rb_data) = 10

(***************************************************************************)
(* TType codes and type specs.  A TypeSpec is a record whose `kind` names *)
(* its class; the specs are linked (field specs hold their type specs).   *)
(***************************************************************************)
BOOL == 2
BYTE == 3
DOUBLE == 4
I16 == 6
I32 == 8
I64 == 10
BINARY == 11
STRUCT == 12
MAP == 13
SET == 14
LIST == 15

KnownTTypes == {BOOL, BYTE, DOUBLE, I16, I32, I64, BINARY, STRUCT, MAP, SET, LIST}

BoolTypeSpec == [kind |-> "bool"]
ByteTypeSpec == [kind |-> "byte"]
I16TypeSpec == [kind |-> "i16"]
I32TypeSpec == [kind |-> "i32"]
I64TypeSpec == [kind |-> "i64"]
TextTypeSpec == [kind |-> "string"]
BinaryTypeSpec == [kind |-> "binary"]
EnumTypeSpec == [kind |-> "enum"]
ListTypeSpec(vspec) == [kind |-> "list", vspec |-> vspec]
SetTypeSpec(vspec) == [kind |-> "set", vspec |-> vspec]
MapTypeSpec(kspec, vspec) == [kind |-> "map", kspec |-> kspec, vspec |-> vspec]

\* The host value None, and the absent return type of a void function.
None == <<"none", 0>>
NoSpec == [kind |-> "void"]

FieldSpec(id, name, spec, required, default_value) ==
  [id |-> id, name |-> name, spec |-> spec, required |-> required,
   default_value |-> default_value]

StructTypeSpec(name, fields) == [kind |-> "struct", name |-> name, fields |-> fields]

ExceptionTypeSpec(name, fields) == [kind |-> "exception", name |-> name, fields |-> fields]

UnionTypeSpec(name, fields, allow_empty) ==
  [kind |-> "union", name |-> name, fields |-> fields, allow_empty |-> allow_empty]

\* a result spec that would allow the empty value whatever the return type
FunctionResultSpec_AlwaysEmpty(name, return_spec, exceptions) ==
  [kind |-> "result", name |-> name,
   fields |-> (IF return_spec.kind # "void"
                 THEN <<FieldSpec(0, "success", return_spec, FALSE, None)>>
                 ELSE <<>>) \o exceptions,
   exception_ids |-> {exceptions[i].id : i \in 1..Len(exceptions)},
   allow_empty |-> TRUE]

\* FunctionResultSpec.__init__: `success` at id 0 when there is a return
\* type, then the exceptions; empty allowed exactly for a void function.
FunctionResultSpec(name, return_spec, exceptions) ==
  [kind |-> "result", name |-> name,
   fields |-> (IF return_spec.kind # "void"
                 THEN <<FieldSpec(0, "success", return_spec, FALSE, None)>>
                 ELSE <<>>) \o exceptions,
   exception_ids |-> {exceptions[i].id : i \in 1..Len(exceptions)},
   allow_empty |-> (return_spec.kind = "void")]

StructKinds == {"struct", "exception"}
UnionKinds == {"union", "result"}

ttype_code(T) ==
  CASE T.kind = "bool" -> BOOL
    [] T.kind = "byte" -> BYTE
    [] T.kind = "i16" -> I16
    [] T.kind \in {"i32", "enum"} -> I32
    [] T.kind = "i64" -> I64
    [] T.kind \in {"string", "binary"} -> BINARY
    [] T.kind = "list" -> LIST
    [] T.kind = "set" -> SET
    [] T.kind = "map" -> MAP
    [] T.kind \in StructKinds \cup UnionKinds -> STRUCT

(***************************************************************************)
(* Host values.  Every host value is a pair <<k, v>>: k names its Python  *)
(* type and v holds its content.  Text is a sequence of code points,      *)
(* bytes a sequence of bytes; a set is the sequence of its elements in    *)
(* iteration order, a dict the sequence of its <<key, value>> items in    *)
(* iteration order; an instance of a generated class holds the class name *)
(* and the values of its attributes in the order of the spec's fields.    *)
(***************************************************************************)
HBool(b) == <<"bool", b>>
HInt(n) == <<"int", n>>
HLong(limbs) == <<"long", limbs>>
HFloat(n) == <<"float", n>>
HText(s) == <<"text", s>>
HBytes(s) == <<"bytes", s>>
HList(s) == <<"list", s>>
HTuple(s) == <<"tuple", s>>
HSet(s) == <<"set", s>>
HDict(s) == <<"dict", s>>
HObj(cls, vals) == <<"obj", [cls |-> cls, vals |-> vals]>>

\* int(x) of a bool or an int
IntOf(x) == IF x[1] = "bool" THEN (IF x[2] THEN 1 ELSE 0) ELSE x[2]

\* an encoder that would write each code point as one byte
utf8_encode_OneByte(cps) == [i \in 1..Len(cps) |-> cps[i] % 256]

\* unicode.encode('utf-8') for code points below 0x10000
RECURSIVE utf8_encode(_)
utf8_encode(cps) ==
  IF cps = <<>> THEN <<>>
  ELSE LET c == Head(cps)
           e == IF c < 128 THEN <<c>>
                ELSE IF c < 2048 THEN <<192 + (c \div 64), 128 + (c % 64)>>
                ELSE <<224 + (c \div 4096), 128 + ((c \div 64) % 64), 128 + (c % 64)>>
       IN  e \o utf8_encode(Tail(cps))

IsCont(b) == b >= 128 /\ b <= 191

\* bytes.decode('utf-8') for byte strings without four-byte lead bytes
\* (0xF0..0xF4): the code points, or UnicodeDecodeError.
RECURSIVE utf8_decode(_)
utf8_decode(bs) ==
  IF bs = <<>> THEN [err |-> "ok", val |-> <<>>]
  ELSE LET b == bs[1]
           n == IF b < 128 THEN 1
                ELSE IF b >= 194 /\ b <= 223 /\ Len(bs) >= 2 /\ IsCont(bs[2]) THEN 2
                ELSE IF /\ b >= 224 /\ b <= 239 /\ Len(bs) >= 3
                        /\ IsCont(bs[2]) /\ IsCont(bs[3])
                        /\ (b = 224 => bs[2] >= 160)
                        /\ (b = 237 => bs[2] <= 159) THEN 3
                ELSE 0
           c == IF n = 1 THEN b
                ELSE IF n = 2 THEN (b - 192) * 64 + (bs[2] - 128)
                ELSE (b - 224) * 4096 + (bs[2] - 128) * 64 + (bs[3] - 128)
       IN  IF n = 0 THEN [err |-> "UnicodeDecodeError", val |-> <<>>]
           ELSE LET rest == utf8_decode(SubSeq(bs, n + 1, Len(bs)))
                IN  IF rest.err # "ok" THEN rest
                    ELSE [err |-> "ok", val |-> <<c>> \o rest.val]

(***************************************************************************)
(* Python semantics the specs rely on: iteration and ==.                  *)
(***************************************************************************)
\* hasattr(value, '__iter__')
HasIter(x) ==
  \/ x[1] \in {"list", "tuple", "set", "dict"}
  \/ py = 3 /\ x[1] \in {"text", "bytes"}

\* the items `for v in value` yields
Iter(x) ==
  CASE x[1] \in {"list", "tuple", "set"} -> x[2]
    [] x[1] = "dict" -> [i \in 1..Len(x[2]) |-> x[2][i][1]]
    [] x[1] = "text" -> [i \in 1..Len(x[2]) |-> HText(<<x[2][i]>>)]
    [] x[1] = "bytes" -> [i \in 1..Len(x[2]) |-> HInt(x[2][i])]

IsAscii(s) == \A i \in 1..Len(s) : s[i] < 128

\* a == b.  Generated classes compare with fields_eq: same class and equal
\* attributes.  Bytes equal text only on Python 2, and only when ASCII.
RECURSIVE HostEq(_, _)
HostEq(a, b) ==
  CASE a[1] = "none" -> b[1] = "none"
    [] a[1] \in {"bool", "int"} -> b[1] \in {"bool", "int"} /\ IntOf(a) = IntOf(b)
    [] a[1] \in {"text", "bytes"} ->
         /\ b[1] \in {"text", "bytes"}
         /\ a[2] = b[2]
         /\ (a[1] # b[1] => py = 2 /\ IsAscii(a[2]))
    [] a[1] \in {"list", "tuple"} ->
         /\ b[1] = a[1]
         /\ Len(a[2]) = Len(b[2])
         /\ \A i \in 1..Len(a[2]) : HostEq(a[2][i], b[2][i])
    [] a[1] = "set" ->
         /\ b[1] = "set"
         /\ \A i \in 1..Len(a[2]) : \E j \in 1..Len(b[2]) : HostEq(a[2][i], b[2][j])
         /\ \A j \in 1..Len(b[2]) : \E i \in 1..Len(a[2]) : HostEq(a[2][i], b[2][j])
    [] a[1] = "dict" ->
         /\ b[1] = "dict"
         /\ Len(a[2]) = Len(b[2])
         /\ \A i \in 1..Len(a[2]) : \E j \in 1..Len(b[2]) :
              HostEq(a[2][i][1], b[2][j][1]) /\ HostEq(a[2][i][2], b[2][j][2])
    [] a[1] = "obj" ->
         /\ b[1] = "obj"
         /\ a[2].cls = b[2].cls
         /\ \A i \in 1..Len(a[2].vals) : HostEq(a[2].vals[i], b[2].vals[i])

(***************************************************************************)
(* TypeSpec.validate: "ok", or the class of the exception raised.         *)
(***************************************************************************)
\* Python integers are unbounded.  A wide integer is <<a, b, c, d>>, the
\* number a * 2^48 + b * 2^32 + c * 2^16 + d with b, c, d in 0..65535 and a
\* of either sign; it holds every value from -2^63 - 1 to 2^63 and beyond.
Limb == 65536

\* carries the limbs' overflow upwards, leaving b, c, d in 0..65535
WideNorm(x) ==
  LET c1 == x[3] + (x[4] \div Limb)
      b1 == x[2] + (c1 \div Limb)
  IN  <<x[1] + (b1 \div Limb), b1 % Limb, c1 % Limb, x[4] % Limb>>

\* the wide integer of a machine-sized integer
Wide(n) == WideNorm(<<0, 0, 0, n>>)

\* x < y
WideLess(x, y) ==
  \E i \in 1..4 : x[i] < y[i] /\ \A j \in 1..(i - 1) : x[j] = y[j]

\* the integer a bool, an int or a long stands for
WideOf(x) == IF x[1] = "long" THEN x[2] ELSE Wide(IF x[1] = "bool" THEN (IF x[2] THEN 1 ELSE 0) ELSE x[2])

\* 1 << k, for k < 64
ShiftLeftOne(k) ==
  [i \in 1..4 |-> IF 4 - i = k \div 16 THEN 2 ^ (k % 16) ELSE 0]

\* a range check that would let the value 2^(bits-1) through
validate_signed_int_OneMore(bits, x) ==
  IF WideLess(x, WideNorm([i \in 1..4 |-> 0 - ShiftLeftOne(bits - 1)[i]]))
     \/ WideLess(ShiftLeftOne(bits - 1), x)
    THEN "ValueError" ELSE "ok"

validate_signed_int(bits, x) ==
  LET max_magnitude == ShiftLeftOne(bits - 1)
      min_value == WideNorm([i \in 1..4 |-> 0 - max_magnitude[i]])
      max_value == WideNorm([max_magnitude EXCEPT ![4] = @ - 1])
  IN  IF WideLess(x, min_value) \/ WideLess(max_value, x) THEN "ValueError" ELSE "ok"

\* isinstance(x, (int, long, numbers.Integral))
IsIntegral(x) == x[1] \in {"bool", "int", "long"}

\* check.instanceof_surface for a generated class
instanceof_surface(T, x) ==
  IF x[1] = "obj" /\ x[2].cls = T.name THEN "ok" ELSE "TypeError"

RECURSIVE validate(_, _), validate_each(_, _, _), validate_items(_, _, _),
          validate_struct_fields(_, _, _), validate_union_fields(_, _, _, _)

\* for v in instance: vspec.validate(v)
validate_each(vspec, items, i) ==
  IF i > Len(items) THEN "ok"
  ELSE LET e == validate(vspec, items[i])
       IN  IF e # "ok" THEN e ELSE validate_each(vspec, items, i + 1)

\* for k, v in instance.items(): kspec.validate(k); vspec.validate(v)
validate_items(T, items, i) ==
  IF i > Len(items) THEN "ok"
  ELSE LET ek == validate(T.kspec, items[i][1])
       IN  IF ek # "ok" THEN ek
           ELSE LET ev == validate(T.vspec, items[i][2])
                IN  IF ev # "ok" THEN ev ELSE validate_items(T, items, i + 1)

\* the field loop of StructTypeSpec.validate
validate_struct_fields(T, vals, i) ==
  IF i > Len(T.fields) THEN "ok"
  ELSE LET field == T.fields[i]
           field_value == vals[i]
       IN  IF field_value[1] = "none"
             THEN IF field.required THEN "TypeError"
                  ELSE validate_struct_fields(T, vals, i + 1)
           ELSE LET e == IF ttype_code(field.spec) = STRUCT
                           THEN instanceof_surface(field.spec, field_value)
                           ELSE validate(field.spec, field_value)
                IN  IF e # "ok" THEN e ELSE validate_struct_fields(T, vals, i + 1)

\* the field loop of UnionTypeSpec.validate and the checks on `found` after it
validate_union_fields(T, vals, i, found) ==
  IF i > Len(T.fields)
    THEN IF T.fields # <<>> /\ found = 0 /\ ~T.allow_empty THEN "TypeError"
         ELSE IF found > 1 THEN "TypeError"
         ELSE "ok"
  ELSE LET field == T.fields[i]
           field_value == vals[i]
       IN  IF field_value[1] = "none" THEN validate_union_fields(T, vals, i + 1, found)
           ELSE LET e == IF ttype_code(field.spec) = STRUCT
                           THEN instanceof_surface(field.spec, field_value)
                           ELSE validate(field.spec, field_value)
                IN  IF e # "ok" THEN e
                    ELSE validate_union_fields(T, vals, i + 1, found + 1)

validate(T, x) ==
  CASE T.kind = "bool" -> IF x[1] \in {"bool", "int"} THEN "ok" ELSE "TypeError"
    [] T.kind = "byte" ->
         IF IsIntegral(x) THEN validate_signed_int(8, WideOf(x)) ELSE "TypeError"
    [] T.kind = "i16" ->
         IF IsIntegral(x) THEN validate_signed_int(16, WideOf(x)) ELSE "TypeError"
    [] T.kind \in {"i32", "enum"} ->
         IF IsIntegral(x) THEN validate_signed_int(32, WideOf(x)) ELSE "TypeError"
    [] T.kind = "i64" ->
         IF IsIntegral(x) THEN validate_signed_int(64, WideOf(x)) ELSE "TypeError"
    [] T.kind \in {"string", "binary"} ->
         IF x[1] \in {"text", "bytes"} THEN "ok" ELSE "TypeError"
    [] T.kind \in {"list", "set"} ->
         IF HasIter(x) THEN validate_each(T.vspec, Iter(x), 1) ELSE "TypeError"
    [] T.kind = "map" ->
         IF x[1] = "dict" THEN validate_items(T, x[2], 1) ELSE "TypeError"
    [] T.kind \in StructKinds ->
         IF instanceof_surface(T, x) # "ok" THEN "TypeError"
         ELSE validate_struct_fields(T, x[2].vals, 1)
    [] T.kind \in UnionKinds ->
         IF instanceof_surface(T, x) # "ok" THEN "TypeError"
         ELSE validate_union_fields(T, x[2].vals, 1, 0)

(***************************************************************************)
(* BinaryProtocolWriter and TypeSpec.write_to: the bytes written for a    *)
(* value that validate accepts.                                            *)
(***************************************************************************)
STRUCT_END == 0

\* the C truth value of a Python bool or int (a `bint` argument)
Truthy(x) == IF x[1] = "bool" THEN x[2] ELSE x[2] # 0

write_bool(x) == EncI8(IF Truthy(x) THEN 1 ELSE 0)

FieldHeader(type, id) == [type |-> type, id |-> id]

\* a writer that would put the field id before the field type
write_field_begin_IdFirst(header) == EncI16(header.id) \o EncI8(header.type)

write_field_begin(header) == EncI8(header.type) \o EncI16(header.id)

write_struct_end == EncI8(STRUCT_END)

write_list_begin(type, size) == EncI8(type) \o EncI32(size)

write_map_begin(ktype, vtype, size) == EncI8(ktype) \o EncI8(vtype) \o EncI32(size)

RECURSIVE write_to(_, _), write_each(_, _, _), write_items(_, _, _),
          write_struct_fields(_, _, _), write_union_fields(_, _, _)

\* for v in value: vspec.write_to(writer, v)
write_each(vspec, items, i) ==
  IF i > Len(items) THEN <<>>
  ELSE write_to(vspec, items[i]) \o write_each(vspec, items, i + 1)

\* for k, v in value.items(): kspec.write_to(writer, k); vspec.write_to(writer, v)
write_items(T, items, i) ==
  IF i > Len(items) THEN <<>>
  ELSE write_to(T.kspec, items[i][1]) \o write_to(T.vspec, items[i][2])
         \o write_items(T, items, i + 1)

\* the field loop of StructTypeSpec.write_to
write_struct_fields(T, vals, i) ==
  IF i > Len(T.fields) THEN <<>>
  ELSE LET field == T.fields[i]
       IN  IF vals[i][1] = "none" THEN write_struct_fields(T, vals, i + 1)
           ELSE write_field_begin(FieldHeader(ttype_code(field.spec), field.id))
                  \o write_to(field.spec, vals[i])
                  \o write_struct_fields(T, vals, i + 1)

\* the field loop of UnionTypeSpec.write_to: it stops after the first value
write_union_fields(T, vals, i) ==
  IF i > Len(T.fields) THEN <<>>
  ELSE LET field == T.fields[i]
       IN  IF vals[i][1] = "none" THEN write_union_fields(T, vals, i + 1)
           ELSE write_field_begin(FieldHeader(ttype_code(field.spec), field.id))
                  \o write_to(field.spec, vals[i])

write_to(T, x) ==
  CASE T.kind = "bool" -> write_bool(x)
    [] T.kind = "byte" -> EncI8(IntOf(x))
    [] T.kind = "i16" -> EncI16(IntOf(x))
    [] T.kind \in {"i32", "enum"} -> EncI32(IntOf(x))
    [] T.kind \in {"string", "binary"} ->
         write_binary(IF x[1] = "text" THEN utf8_encode(x[2]) ELSE x[2])
    [] T.kind \in {"list", "set"} ->
         write_list_begin(ttype_code(T.vspec), Len(Iter(x)))
           \o write_each(T.vspec, Iter(x), 1)
    [] T.kind = "map" ->
         write_map_begin(ttype_code(T.kspec), ttype_code(T.vspec), Len(x[2]))
           \o write_items(T, x[2], 1)
    [] T.kind \in StructKinds ->
         write_struct_fields(T, x[2].vals, 1) \o write_struct_end
    [] T.kind \in UnionKinds ->
         write_union_fields(T, x[2].vals, 1) \o write_struct_end

(***************************************************************************)
(* BinaryProtocolReader: headers and skip.                                 *)
(***************************************************************************)
STRUCT_END_HEADER == FieldHeader(0 - 1, 0 - 1)

read_field_begin(d, o) ==
  Then(Reader_byte(d, o), LAMBDA t :
    IF t.val = STRUCT_END THEN Ok(STRUCT_END_HEADER, t.o)
    ELSE Then(Reader_i16(d, t.o), LAMBDA i : Ok(FieldHeader(t.val, i.val), i.o)))

\* read_list_begin and read_set_begin: value_type:1 count:4
read_list_begin(d, o) ==
  Then(Reader_byte(d, o), LAMBDA t :
    Then(Reader_i32(d, t.o), LAMBDA n : Ok([type |-> t.val, size |-> n.val], n.o)))

read_map_begin(d, o) ==
  Then(Reader_byte(d, o), LAMBDA kt :
    Then(Reader_byte(d, kt.o), LAMBDA vt :
      Then(Reader_i32(d, vt.o), LAMBDA n :
        Ok([ktype |-> kt.val, vtype |-> vt.val, size |-> n.val], n.o))))

RECURSIVE skip(_, _, _), skip_struct(_, _), skip_each(_, _, _, _), skip_pairs(_, _, _, _, _)

\* for _ in range(n): self.skip(typ).  A skip that leaves the offset where
\* it was does so again in every later iteration, so the loop ends there.
skip_each(typ, n, d, o) ==
  IF n <= 0 THEN Ok(<<>>, o)
  ELSE Then(skip(typ, d, o), LAMBDA s :
         IF s.o = o THEN s ELSE skip_each(typ, n - 1, d, s.o))

\* for _ in range(n): self.skip(ktype); self.skip(vtype)
skip_pairs(ktype, vtype, n, d, o) ==
  IF n <= 0 THEN Ok(<<>>, o)
  ELSE Then(skip(ktype, d, o), LAMBDA sk :
         Then(skip(vtype, d, sk.o), LAMBDA sv :
           IF sv.o = o THEN sv ELSE skip_pairs(ktype, vtype, n - 1, d, sv.o)))

skip_struct(d, o) ==
  Then(read_field_begin(d, o), LAMBDA h :
    IF h.val.type = 0 - 1 THEN Ok(<<>>, h.o)
    ELSE Then(skip(h.val.type, d, h.o), LAMBDA s : skip_struct(d, s.o)))

skip_list(d, o) ==
  Then(read_list_begin(d, o), LAMBDA h : skip_each(h.val.type, h.val.size, d, h.o))

skip_map(d, o) ==
  Then(read_map_begin(d, o), LAMBDA h :
    skip_pairs(h.val.ktype, h.val.vtype, h.val.size, d, h.o))

\* a reader whose skip would leave the value of the field in place
skip_Nothing(typ, d, o) == Ok(<<>>, o)

\* BinaryProtocolReader.skip: a type code outside the table skips nothing
skip(typ, d, o) ==
  CASE typ \in {BOOL, BYTE} -> ReadBuffer_skip(d, o, 1)
    [] typ \in {DOUBLE, I64} -> ReadBuffer_skip(d, o, 8)
    [] typ = I16 -> ReadBuffer_skip(d, o, 2)
    [] typ = I32 -> ReadBuffer_skip(d, o, 4)
    [] typ = BINARY -> skip_binary(d, o)
    [] typ = STRUCT -> skip_struct(d, o)
    [] typ = MAP -> skip_map(d, o)
    [] typ \in {SET, LIST} -> skip_list(d, o)
    [] OTHER -> Ok(<<>>, o)

(***************************************************************************)
(* The generated classes' constructors.  kwargs holds, in the order of    *)
(* the spec's fields, the keyword argument given for each field (None for *)
(* a field without one).  The result is [err, val]: the instance, or the  *)
(* class of the exception raised.                                          *)
(***************************************************************************)
Made(x) == [err |-> "ok", val |-> x]
Raised(e) == [err |-> e, val |-> None]

NoKwargs(T) == [i \in 1..Len(T.fields) |-> None]

NumGiven(kwargs) == Cardinality({i \in 1..Len(kwargs) : kwargs[i][1] # "none"})

\* struct_cls: the fields the constructor requires an argument for
IsRequiredArg(field) == field.required /\ field.default_value[1] = "none"

RECURSIVE IndicesWhere(_, _, _)
IndicesWhere(T, want, i) ==
  IF i > Len(T.fields) THEN <<>>
  ELSE (IF IsRequiredArg(T.fields[i]) = want THEN <<i>> ELSE <<>>)
         \o IndicesWhere(T, want, i + 1)

\* struct_cls: field_names = required_fields + optional_fields
field_names(T) == IndicesWhere(T, TRUE, 1) \o IndicesWhere(T, FALSE, 1)

\* the loop of struct_init over field_names
RECURSIVE struct_init_fields(_, _, _, _)
struct_init_fields(T, kwargs, order, n) ==
  IF n > Len(order) THEN Made(HObj(T.name, kwargs))
  ELSE LET i == order[n]
           field_spec == T.fields[i]
           value == kwargs[i]
       IN  IF value[1] = "none"
             THEN IF field_spec.default_value[1] # "none"
                    THEN struct_init_fields(
                           T, [kwargs EXCEPT ![i] = field_spec.default_value], order, n + 1)
                  ELSE IF field_spec.required THEN Raised("TypeError")
                  ELSE struct_init_fields(T, kwargs, order, n + 1)
           ELSE LET e == IF ttype_code(field_spec.spec) = STRUCT
                           THEN instanceof_surface(field_spec.spec, value)
                           ELSE validate(field_spec.spec, value)
                IN  IF e # "ok" THEN Raised(e)
                    ELSE struct_init_fields(T, kwargs, order, n + 1)

struct_init(T, kwargs) ==
  IF NumGiven(kwargs) < Len(IndicesWhere(T, TRUE, 1)) THEN Raised("TypeError")
  ELSE struct_init_fields(T, kwargs, field_names(T), 1)

\* the loop of struct_init over field_names for a call with positional and
\* keyword arguments: n is the position in field_names, vals the attributes
\* set so far (in the order of the spec's fields)
RECURSIVE struct_init_bind(_, _, _, _, _, _)
struct_init_bind(T, args, kwargs, order, n, vals) ==
  IF n > Len(order)
    THEN IF \E name \in DOMAIN kwargs :
              \A m \in (Len(args) + 1)..Len(order) : T.fields[order[m]].name # name
           THEN Raised("TypeError")
         ELSE Made(HObj(T.name, vals))
  ELSE LET i == order[n]
           field_spec == T.fields[i]
           value == IF n <= Len(args) THEN args[n]
                    ELSE IF field_spec.name \in DOMAIN kwargs THEN kwargs[field_spec.name]
                    ELSE None
       IN  IF n <= Len(args) /\ field_spec.name \in DOMAIN kwargs THEN Raised("TypeError")
           ELSE IF value[1] = "none"
             THEN IF field_spec.default_value[1] # "none"
                    THEN struct_init_bind(T, args, kwargs, order, n + 1,
                                          [vals EXCEPT ![i] = field_spec.default_value])
                  ELSE IF field_spec.required THEN Raised("TypeError")
                  ELSE struct_init_bind(T, args, kwargs, order, n + 1, vals)
           ELSE LET e == IF ttype_code(field_spec.spec) = STRUCT
                           THEN instanceof_surface(field_spec.spec, value)
                           ELSE validate(field_spec.spec, value)
                IN  IF e # "ok" THEN Raised(e)
                    ELSE struct_init_bind(T, args, kwargs, order, n + 1,
                                          [vals EXCEPT ![i] = value])

\* a constructor that would not look at whether a required field is None
struct_init_call_NoneAllowed(T, args, kwargs) ==
  Made(HObj(T.name, [i \in 1..Len(T.fields) |->
                       IF T.fields[i].name \in DOMAIN kwargs
                         THEN kwargs[T.fields[i].name] ELSE None]))

\* the __init__ struct_init generates, called as cls(*args, **kwargs);
\* kwargs is a function from the names given to their values
struct_init_call(T, args, kwargs) ==
  LET num_total == Len(args) + Cardinality(DOMAIN kwargs)
  IN  IF num_total < Len(IndicesWhere(T, TRUE, 1)) THEN Raised("TypeError")
      ELSE IF num_total > Len(T.fields) THEN Raised("TypeError")
      ELSE struct_init_bind(T, args, kwargs, field_names(T), 1, NoKwargs(T))

\* a union constructor that would accept a call giving no value
union_init_AllowEmpty(T, kwargs) ==
  IF NumGiven(kwargs) = 0 THEN Made(HObj(T.name, kwargs))
  ELSE IF NumGiven(kwargs) > 1 THEN Raised("TypeError")
  ELSE LET e == validate(T, HObj(T.name, kwargs))
       IN  IF e # "ok" THEN Raised(e) ELSE Made(HObj(T.name, kwargs))

union_init(T, kwargs) ==
  IF NumGiven(kwargs) > 1 THEN Raised("TypeError")
  ELSE IF NumGiven(kwargs) = 0 /\ T.fields # <<>> /\ ~T.allow_empty THEN Raised("TypeError")
  ELSE LET e == validate(T, HObj(T.name, kwargs))
       IN  IF e # "ok" THEN Raised(e) ELSE Made(HObj(T.name, kwargs))

\* self.surface(**kwargs)
surface(T, kwargs) ==
  IF T.kind \in StructKinds THEN struct_init(T, kwargs) ELSE union_init(T, kwargs)

(***************************************************************************)
(* TypeSpec.read_from: reading a host value straight off the reader.      *)
(* The result is Ok(value, offset) or the error raised and the offset at  *)
(* which reading stopped.                                                  *)
(***************************************************************************)
\* list, set and dict are not hashable
Unhashable(x) == x[1] \in {"list", "set", "dict"}

\* output.add(x)
SetAdd(items, x) ==
  IF \E i \in 1..Len(items) : HostEq(items[i], x) THEN items ELSE Append(items, x)

\* output[key] = value
DictPut(items, key, value) ==
  IF \E i \in 1..Len(items) : HostEq(items[i][1], key)
    THEN [i \in 1..Len(items) |->
            IF HostEq(items[i][1], key) THEN <<items[i][1], value>> ELSE items[i]]
    ELSE Append(items, <<key, value>>)

(***************************************************************************)
(* TypeSpec.to_primitive and TypeSpec.from_primitive.  The primitive form *)
(* of a struct or union is a dict from field names to primitive values,   *)
(* here HNamed(<<name, value>>, ...).                                      *)
(***************************************************************************)
HNamed(entries) == <<"named", entries>>

\* prim_value.get(name)
NamedGet(prim_value, name) ==
  LET hits == {k \in 1..Len(prim_value[2]) : prim_value[2][k][1] = name}
  IN  IF hits = {} THEN None ELSE prim_value[2][CHOOSE k \in hits : TRUE][2]

\* bool(x) of a bool or an int
Truth(x) == IntOf(x) # 0

\* isinstance(value, bytes): value.decode('utf-8')
DecodeIfBytes(value) ==
  IF value[1] = "bytes"
    THEN LET r == utf8_decode(value[2])
         IN  IF r.err # "ok" THEN Raised(r.err) ELSE Made(HText(r.val))
    ELSE Made(value)

\* isinstance(value, unicode): value.encode('utf-8')
EncodeIfText(value) ==
  IF value[1] = "text" THEN Made(HBytes(utf8_encode(value[2]))) ELSE Made(value)

RECURSIVE to_primitive(_, _), to_primitive_each(_, _, _, _), to_primitive_items(_, _, _, _),
          to_primitive_fields(_, _, _, _)

\* [vspec.to_primitive(x) for x in value]
to_primitive_each(vspec, items, i, output) ==
  IF i > Len(items) THEN Made(HList(output))
  ELSE Then(to_primitive(vspec, items[i]), LAMBDA r :
         to_primitive_each(vspec, items, i + 1, Append(output, r.val)))

\* {kspec.to_primitive(k): vspec.to_primitive(v) for k, v in value.items()}
to_primitive_items(T, items, i, output) ==
  IF i > Len(items) THEN Made(HDict(output))
  ELSE Then(to_primitive(T.kspec, items[i][1]), LAMBDA rk :
         Then(to_primitive(T.vspec, items[i][2]), LAMBDA rv :
           IF Unhashable(rk.val) THEN Raised("TypeError")
           ELSE to_primitive_items(T, items, i + 1, DictPut(output, rk.val, rv.val))))

\* the field loop of StructTypeSpec.to_primitive; a union returns at its
\* first field that is not None
to_primitive_fields(T, vals, i, prim) ==
  IF i > Len(T.fields) THEN Made(HNamed(prim))
  ELSE IF vals[i] = None THEN to_primitive_fields(T, vals, i + 1, prim)
  ELSE Then(to_primitive(T.fields[i].spec, vals[i]), LAMBDA r :
         IF T.kind \in UnionKinds THEN Made(HNamed(<<<<T.fields[i].name, r.val>>>>))
         ELSE to_primitive_fields(T, vals, i + 1, Append(prim, <<T.fields[i].name, r.val>>)))

to_primitive(T, value) ==
  CASE T.kind = "bool" -> Made(HBool(Truth(value)))
    [] T.kind \in {"byte", "i16", "i32", "enum"} -> Made(value)
    [] T.kind = "string" -> DecodeIfBytes(value)
    [] T.kind = "binary" -> EncodeIfText(value)
    [] T.kind \in {"list", "set"} -> to_primitive_each(T.vspec, Iter(value), 1, <<>>)
    [] T.kind = "map" -> to_primitive_items(T, value[2], 1, <<>>)
    [] T.kind \in StructKinds \cup UnionKinds ->
         to_primitive_fields(T, value[2].vals, 1, <<>>)

RECURSIVE from_primitive(_, _), from_primitive_list(_, _, _, _), from_primitive_set(_, _, _, _),
          from_primitive_items(_, _, _, _), from_primitive_fields(_, _, _, _)

\* [vspec.from_primitive(v) for v in prim_value]
from_primitive_list(vspec, items, i, output) ==
  IF i > Len(items) THEN Made(HList(output))
  ELSE Then(from_primitive(vspec, items[i]), LAMBDA r :
         from_primitive_list(vspec, items, i + 1, Append(output, r.val)))

\* for v in prim_value: result.add(vspec.from_primitive(v))
from_primitive_set(vspec, items, i, output) ==
  IF i > Len(items) THEN Made(HSet(output))
  ELSE Then(from_primitive(vspec, items[i]), LAMBDA r :
         IF Unhashable(r.val) THEN Raised("TypeError")
         ELSE from_primitive_set(vspec, items, i + 1, SetAdd(output, r.val)))

\* {kspec.from_primitive(k): vspec.from_primitive(v) for k, v in prim_value.items()}
from_primitive_items(T, items, i, output) ==
  IF i > Len(items) THEN Made(HDict(output))
  ELSE Then(from_primitive(T.kspec, items[i][1]), LAMBDA rk :
         Then(from_primitive(T.vspec, items[i][2]), LAMBDA rv :
           IF Unhashable(rk.val) THEN Raised("TypeError")
           ELSE from_primitive_items(T, items, i + 1, DictPut(output, rk.val, rv.val))))

\* the field loop of StructTypeSpec.from_primitive and of
\* UnionTypeSpec.from_primitive, which breaks at the first field found
from_primitive_fields(T, prim_value, i, kwargs) ==
  IF i > Len(T.fields) THEN surface(T, kwargs)
  ELSE IF NamedGet(prim_value, T.fields[i].name) = None
    THEN from_primitive_fields(T, prim_value, i + 1, kwargs)
  ELSE Then(from_primitive(T.fields[i].spec, NamedGet(prim_value, T.fields[i].name)),
            LAMBDA r :
              IF T.kind \in UnionKinds THEN surface(T, [kwargs EXCEPT ![i] = r.val])
              ELSE from_primitive_fields(T, prim_value, i + 1, [kwargs EXCEPT ![i] = r.val]))

\* a from_primitive that hands every key of the mapping to the constructor,
\* which raises TypeError for a name that is no field
from_primitive_AllKeys(T, prim_value) ==
  CASE T.kind = "bool" -> Made(HBool(Truth(prim_value)))
    [] T.kind \in {"byte", "i16", "i32"} -> Made(HInt(IntOf(prim_value)))
    [] T.kind = "enum" -> Made(prim_value)
    [] T.kind = "string" -> DecodeIfBytes(prim_value)
    [] T.kind = "binary" -> EncodeIfText(prim_value)
    [] T.kind = "list" -> from_primitive_list(T.vspec, Iter(prim_value), 1, <<>>)
    [] T.kind = "set" -> from_primitive_set(T.vspec, Iter(prim_value), 1, <<>>)
    [] T.kind = "map" -> from_primitive_items(T, prim_value[2], 1, <<>>)
    [] T.kind \in StructKinds \cup UnionKinds ->
         IF \E k \in 1..Len(prim_value[2]) :
              \A i \in 1..Len(T.fields) : T.fields[i].name # prim_value[2][k][1]
           THEN Raised("TypeError")
           ELSE from_primitive_fields(T, prim_value, 1, NoKwargs(T))

from_primitive(T, prim_value) ==
  CASE T.kind = "bool" -> Made(HBool(Truth(prim_value)))
    [] T.kind \in {"byte", "i16", "i32"} -> Made(HInt(IntOf(prim_value)))
    \* EnumTypeSpec: items.get(prim_value) finds no item named by a number
    [] T.kind = "enum" -> Made(prim_value)
    [] T.kind = "string" -> DecodeIfBytes(prim_value)
    [] T.kind = "binary" -> EncodeIfText(prim_value)
    [] T.kind = "list" -> from_primitive_list(T.vspec, Iter(prim_value), 1, <<>>)
    [] T.kind = "set" -> from_primitive_set(T.vspec, Iter(prim_value), 1, <<>>)
    [] T.kind = "map" -> from_primitive_items(T, prim_value[2], 1, <<>>)
    [] T.kind \in StructKinds \cup UnionKinds ->
         from_primitive_fields(T, prim_value, 1, NoKwargs(T))

\* StructTypeSpec._index.get(header.id): the position of the field, or 0
IndexById(T, id) ==
  LET hits == {i \in 1..Len(T.fields) : T.fields[i].id = id}
  IN  IF hits = {} THEN 0 ELSE CHOOSE i \in hits : \A j \in hits : j <= i

\* UnionTypeSpec._index.get((header.id, header.type)): the position, or 0
IndexByIdAndType(T, id, type) ==
  LET hits == {i \in 1..Len(T.fields) :
                 T.fields[i].id = id /\ ttype_code(T.fields[i].spec) = type}
  IN  IF hits = {} THEN 0 ELSE CHOOSE i \in hits : \A j \in hits : j <= i

RECURSIVE read_from(_, _, _), read_list_items(_, _, _, _, _), read_set_items(_, _, _, _, _),
          read_map_items(_, _, _, _, _), read_struct_fields(_, _, _, _),
          read_union_fields(_, _, _, _), read_result_fields(_, _, _, _)

\* for i in range(n): output.append(vspec.read_from(reader))
read_list_items(vspec, n, d, o, output) ==
  IF n <= 0 THEN Ok(HList(output), o)
  ELSE Then(read_from(vspec, d, o), LAMBDA r :
         read_list_items(vspec, n - 1, d, r.o, Append(output, r.val)))

\* for _ in range(n): output.add(vspec.read_from(reader))
read_set_items(vspec, n, d, o, output) ==
  IF n <= 0 THEN Ok(HSet(output), o)
  ELSE Then(read_from(vspec, d, o), LAMBDA r :
         IF Unhashable(r.val) THEN Fail("TypeError", r.o)
         ELSE read_set_items(vspec, n - 1, d, r.o, SetAdd(output, r.val)))

\* {kspec.read_from(reader): vspec.read_from(reader) for i in range(n)}
read_map_items(T, n, d, o, output) ==
  IF n <= 0 THEN Ok(HDict(output), o)
  ELSE Then(read_from(T.kspec, d, o), LAMBDA rk :
         Then(read_from(T.vspec, d, rk.o), LAMBDA rv :
           IF Unhashable(rk.val) THEN Fail("TypeError", rv.o)
           ELSE read_map_items(T, n - 1, d, rv.o, DictPut(output, rk.val, rv.val))))

\* the field loop of StructTypeSpec.read_from
read_struct_fields(T, d, o, kwargs) ==
  Then(read_field_begin(d, o), LAMBDA h :
    LET i == IndexById(T, h.val.id)
    IN  IF h.val.type = 0 - 1 THEN Ok(kwargs, h.o)
        ELSE IF i = 0 \/ ttype_code(T.fields[i].spec) # h.val.type
          THEN Then(skip(h.val.type, d, h.o), LAMBDA s :
                 read_struct_fields(T, d, s.o, kwargs))
          ELSE Then(read_from(T.fields[i].spec, d, h.o), LAMBDA r :
                 read_struct_fields(T, d, r.o, [kwargs EXCEPT ![i] = r.val])))

\* the field loop of UnionTypeSpec.read_from
read_union_fields(T, d, o, kwargs) ==
  Then(read_field_begin(d, o), LAMBDA h :
    LET i == IndexByIdAndType(T, h.val.id, h.val.type)
    IN  IF h.val.type = 0 - 1 THEN Ok(kwargs, h.o)
        ELSE IF i = 0
          THEN Then(skip(h.val.type, d, h.o), LAMBDA s :
                 read_union_fields(T, d, s.o, kwargs))
          ELSE Then(read_from(T.fields[i].spec, d, h.o), LAMBDA r :
                 read_union_fields(T, d, r.o, [kwargs EXCEPT ![i] = r.val])))

\* the field loop of FunctionResultSpec.read_from
read_result_fields(T, d, o, kwargs) ==
  Then(read_field_begin(d, o), LAMBDA h :
    LET i == IndexByIdAndType(T, h.val.id, h.val.type)
    IN  IF h.val.type = 0 - 1 THEN Ok(kwargs, h.o)
        ELSE IF i = 0
          THEN IF h.val.id # 0 THEN Fail("UnknownExceptionError", h.o)
               ELSE Then(skip(h.val.type, d, h.o), LAMBDA s :
                      read_result_fields(T, d, s.o, kwargs))
          ELSE Then(read_from(T.fields[i].spec, d, h.o), LAMBDA r :
                 read_result_fields(T, d, r.o, [kwargs EXCEPT ![i] = r.val])))

\* return self.surface(**kwargs) once the fields are read
Surfaced(T, fields_read) ==
  Then(fields_read, LAMBDA f :
    LET made == surface(T, f.val)
    IN  IF made.err # "ok" THEN Fail(made.err, f.o) ELSE Ok(made.val, f.o))

read_from(T, d, o) ==
  CASE T.kind = "bool" ->
         Then(Reader_byte(d, o), LAMBDA r : Ok(HBool(r.val = 1), r.o))
    [] T.kind = "byte" ->
         Then(Reader_byte(d, o), LAMBDA r : Ok(HInt(r.val), r.o))
    [] T.kind = "i16" ->
         Then(Reader_i16(d, o), LAMBDA r : Ok(HInt(r.val), r.o))
    [] T.kind \in {"i32", "enum"} ->
         Then(Reader_i32(d, o), LAMBDA r : Ok(HInt(r.val), r.o))
    [] T.kind = "string" ->
         Then(read_binary(d, o), LAMBDA r :
           LET t == utf8_decode(r.val)
           IN  IF t.err # "ok" THEN Fail(t.err, r.o) ELSE Ok(HText(t.val), r.o))
    [] T.kind = "binary" ->
         Then(read_binary(d, o), LAMBDA r : Ok(HBytes(r.val), r.o))
    [] T.kind = "list" ->
         Then(read_list_begin(d, o), LAMBDA h :
           read_list_items(T.vspec, h.val.size, d, h.o, <<>>))
    [] T.kind = "set" ->
         Then(read_list_begin(d, o), LAMBDA h :
           read_set_items(T.vspec, h.val.size, d, h.o, <<>>))
    [] T.kind = "map" ->
         Then(read_map_begin(d, o), LAMBDA h :
           read_map_items(T, h.val.size, d, h.o, <<>>))
    [] T.kind \in StructKinds -> Surfaced(T, read_struct_fields(T, d, o, NoKwargs(T)))
    [] T.kind = "union" -> Surfaced(T, read_union_fields(T, d, o, NoKwargs(T)))
    [] T.kind = "result" -> Surfaced(T, read_result_fields(T, d, o, NoKwargs(T)))

(***************************************************************************)
(* The wire-value path: BinaryProtocol.deserialize_value builds a wire    *)
(* Value with _OldBinaryProtocolReader, and TypeSpec.from_wire turns it   *)
(* into a host value.  A wire Value is [tt, value]: its ttype code and    *)
(* its content (the eight raw bytes for an i64 or a double).              *)
(***************************************************************************)
WValue(tt, value) == [tt |-> tt, value |-> value]
FieldValue(id, ttype, value) == [id |-> id, ttype |-> ttype, value |-> value]

RECURSIVE Old_read(_, _, _), Old_read_struct(_, _, _), Old_read_values(_, _, _, _, _),
          Old_read_pairs(_, _, _, _, _, _)

\* for i in range(n): values.append(vreader(self))
Old_read_values(typ, n, d, o, values) ==
  IF n <= 0 THEN Ok(values, o)
  ELSE Then(Old_read(typ, d, o), LAMBDA r :
         Old_read_values(typ, n - 1, d, r.o, Append(values, r.val)))

\* for i in range(n): pairs.append(MapItem(kreader(self), vreader(self)))
Old_read_pairs(ktype, vtype, n, d, o, pairs) ==
  IF n <= 0 THEN Ok(pairs, o)
  ELSE Then(Old_read(ktype, d, o), LAMBDA rk :
         Then(Old_read(vtype, d, rk.o), LAMBDA rv :
           Old_read_pairs(ktype, vtype, n - 1, d, rv.o, Append(pairs, <<rk.val, rv.val>>))))

\* _OldBinaryProtocolReader.read_struct, from the point where the next
\* field's type byte is read
Old_read_struct(d, o, fields) ==
  Then(Reader_byte(d, o), LAMBDA t :
    IF t.val = STRUCT_END THEN Ok(WValue(STRUCT, fields), t.o)
    ELSE Then(Reader_i16(d, t.o), LAMBDA i :
           Then(Old_read(t.val, d, i.o), LAMBDA r :
             Old_read_struct(d, r.o, Append(fields, FieldValue(i.val, t.val, r.val))))))

\* _OldBinaryProtocolReader.read_list and read_set
Old_read_list(tt, d, o) ==
  Then(read_list_begin(d, o), LAMBDA h :
    IF h.val.type \notin KnownTTypes THEN Fail("ThriftProtocolError", h.o)
    ELSE Then(Old_read_values(h.val.type, h.val.size, d, h.o, <<>>), LAMBDA r :
           Ok(WValue(tt, [value_ttype |-> h.val.type, values |-> r.val]), r.o)))

Old_read_map(d, o) ==
  Then(read_map_begin(d, o), LAMBDA h :
    IF h.val.ktype \notin KnownTTypes \/ h.val.vtype \notin KnownTTypes
      THEN Fail("ThriftProtocolError", h.o)
      ELSE Then(Old_read_pairs(h.val.ktype, h.val.vtype, h.val.size, d, h.o, <<>>),
                LAMBDA r :
             Ok(WValue(MAP, [key_ttype |-> h.val.ktype,
                             value_ttype |-> h.val.vtype,
                             pairs |-> r.val]), r.o)))

\* _OldBinaryProtocolReader.read
Old_read(typ, d, o) ==
  CASE typ = BOOL -> Then(Reader_byte(d, o), LAMBDA r : Ok(WValue(BOOL, r.val = 1), r.o))
    [] typ = BYTE -> Then(Reader_byte(d, o), LAMBDA r : Ok(WValue(BYTE, r.val), r.o))
    [] typ \in {DOUBLE, I64} ->
         Then(ReadBuffer_read(d, o, 8), LAMBDA r : Ok(WValue(typ, r.val), r.o))
    [] typ = I16 -> Then(Reader_i16(d, o), LAMBDA r : Ok(WValue(I16, r.val), r.o))
    [] typ = I32 -> Then(Reader_i32(d, o), LAMBDA r : Ok(WValue(I32, r.val), r.o))
    [] typ = BINARY -> Then(read_binary(d, o), LAMBDA r : Ok(WValue(BINARY, r.val), r.o))
    [] typ = STRUCT -> Old_read_struct(d, o, <<>>)
    [] typ = MAP -> Old_read_map(d, o)
    [] typ = SET -> Old_read_list(SET, d, o)
    [] typ = LIST -> Old_read_list(LIST, d, o)
    [] OTHER -> Fail("ThriftProtocolError", o)

\* BinaryProtocol.deserialize_value(int typ, bytes s): read takes the type
\* code as an int8_t
deserialize_value(typ, s) == Old_read(ToI8(typ % 256), s, 0)

\* StructValue.get(field_id, field_ttype): the last such field, or None
StructValue_get(fields, id, ttype) ==
  LET hits == {i \in 1..Len(fields) : fields[i].id = id /\ fields[i].ttype = ttype}
  IN  IF hits = {} THEN 0 ELSE CHOOSE i \in hits : \A j \in hits : j <= i

RECURSIVE from_wire(_, _), from_wire_list(_, _, _, _), from_wire_set(_, _, _, _),
          from_wire_map(_, _, _, _), from_wire_struct(_, _, _, _),
          from_wire_union(_, _, _)

\* [vspec.from_wire(v) for v in wire_value.values]
from_wire_list(vspec, values, i, output) ==
  IF i > Len(values) THEN Made(HList(output))
  ELSE Then(from_wire(vspec, values[i]), LAMBDA r :
         from_wire_list(vspec, values, i + 1, Append(output, r.val)))

\* for v in wire_value.values: result.add(vspec.from_wire(v))
from_wire_set(vspec, values, i, output) ==
  IF i > Len(values) THEN Made(HSet(output))
  ELSE Then(from_wire(vspec, values[i]), LAMBDA r :
         IF Unhashable(r.val) THEN Raised("TypeError")
         ELSE from_wire_set(vspec, values, i + 1, SetAdd(output, r.val)))

\* {kspec.from_wire(i.key): vspec.from_wire(i.value) for i in wire_value.pairs}
from_wire_map(T, pairs, i, output) ==
  IF i > Len(pairs) THEN Made(HDict(output))
  ELSE Then(from_wire(T.kspec, pairs[i][1]), LAMBDA rk :
         Then(from_wire(T.vspec, pairs[i][2]), LAMBDA rv :
           IF Unhashable(rk.val) THEN Raised("TypeError")
           ELSE from_wire_map(T, pairs, i + 1, DictPut(output, rk.val, rv.val))))

\* the field loop of StructTypeSpec.from_wire
from_wire_struct(T, fields, i, kwargs) ==
  IF i > Len(T.fields) THEN surface(T, kwargs)
  ELSE LET j == StructValue_get(fields, T.fields[i].id, ttype_code(T.fields[i].spec))
       IN  IF j = 0 THEN from_wire_struct(T, fields, i + 1, kwargs)
           ELSE Then(from_wire(T.fields[i].spec, fields[j].value), LAMBDA r :
                  from_wire_struct(T, fields, i + 1, [kwargs EXCEPT ![i] = r.val]))

\* the field loop of UnionTypeSpec.from_wire: it stops at the first field found
from_wire_union(T, fields, i) ==
  IF i > Len(T.fields) THEN surface(T, NoKwargs(T))
  ELSE LET j == StructValue_get(fields, T.fields[i].id, ttype_code(T.fields[i].spec))
       IN  IF j = 0 THEN from_wire_union(T, fields, i + 1)
           ELSE Then(from_wire(T.fields[i].spec, fields[j].value), LAMBDA r :
                  surface(T, [NoKwargs(T) EXCEPT ![i] = r.val]))

from_wire(T, w) ==
  IF ttype_code(T) # w.tt THEN Raised("ValueError")
  ELSE
    CASE T.kind = "bool" -> Made(HBool(w.value))
      [] T.kind \in {"byte", "i16", "i32", "enum"} -> Made(HInt(w.value))
      [] T.kind = "string" ->
           LET t == utf8_decode(w.value)
           IN  IF t.err # "ok" THEN Raised(t.err) ELSE Made(HText(t.val))
      [] T.kind = "binary" -> Made(HBytes(w.value))
      [] T.kind = "list" -> from_wire_list(T.vspec, w.value.values, 1, <<>>)
      [] T.kind = "set" -> from_wire_set(T.vspec, w.value.values, 1, <<>>)
      [] T.kind = "map" -> from_wire_map(T, w.value.pairs, 1, <<>>)
      [] T.kind \in StructKinds -> from_wire_struct(T, w.value, 1, NoKwargs(T))
      [] T.kind = "union" -> from_wire_union(T, w.value, 1)
      [] T.kind = "result" ->
           IF \E i \in 1..Len(w.value) :
                w.value[i].id # 0 /\ w.value[i].id \notin T.exception_ids
             THEN Raised("UnknownExceptionError")
             ELSE from_wire_union(T, w.value, 1)

(***************************************************************************)
(* Scenario 3: the codec.  A linked TypeSpec is taken from a small IDL    *)
(* and one of three things happens to it:                                 *)
(*   "value": a host value is validated, written with write_to, and the   *)
(*            bytes written are read back;                                 *)
(*   "args":  the generated class is constructed from keyword arguments;  *)
(*   "image": a struct image made of arbitrary fields, possibly cut       *)
(*            short, is read.                                              *)
(* Bytes are read twice: directly with read_from, and through             *)
(* deserialize_value and from_wire.                                        *)
(***************************************************************************)
MaxLen == 2        \* longest list, set and dict among the host values
MaxFields == 2     \* most fields in a struct image
MaxArgs == 2       \* most positional arguments of a constructor call

Hi == <<72, 105>>

\* exception NotFound { 1: optional string message }
NotFound == ExceptionTypeSpec("NotFound", <<FieldSpec(1, "message", TextTypeSpec, FALSE, None)>>)

\* struct Named { 1: required string name }
Named == StructTypeSpec("Named", <<FieldSpec(1, "name", TextTypeSpec, TRUE, None)>>)

\* struct Item { 1: required i32 key; 2: optional string note; 7: optional i32 count = 7 }
Item ==
  StructTypeSpec("Item", <<FieldSpec(1, "key", I32TypeSpec, TRUE, None),
                           FieldSpec(2, "note", TextTypeSpec, FALSE, None),
                           FieldSpec(7, "count", I32TypeSpec, FALSE, HInt(7))>>)

\* union Body { 1: string plainText; 2: i32 code }
Body ==
  UnionTypeSpec("Body", <<FieldSpec(1, "plainText", TextTypeSpec, FALSE, None),
                          FieldSpec(2, "code", I32TypeSpec, FALSE, None)>>, FALSE)

\* union Nothing {}
Nothing == UnionTypeSpec("Nothing", <<>>, FALSE)

\* i32 getFoo() throws (1: NotFound notFound)
GetFooResult ==
  FunctionResultSpec("getFoo_response", I32TypeSpec,
                     <<FieldSpec(1, "notFound", NotFound, FALSE, None)>>)

\* void ping() throws (1: NotFound notFound)
PingResult ==
  FunctionResultSpec("ping_response", NoSpec,
                     <<FieldSpec(1, "notFound", NotFound, FALSE, None)>>)

\* struct Range { 1: required i16 step = 7; 2: required i16 lo; 3: required i16 hi }
Range ==
  StructTypeSpec("Range", <<FieldSpec(1, "step", I16TypeSpec, TRUE, HInt(7)),
                            FieldSpec(2, "lo", I16TypeSpec, TRUE, None),
                            FieldSpec(3, "hi", I16TypeSpec, TRUE, None)>>)

ClassSpecs == {Named, Item, NotFound, Body, Nothing, GetFooResult, PingResult}

TypeSpecs ==
  {BoolTypeSpec, ByteTypeSpec, I16TypeSpec, I32TypeSpec, EnumTypeSpec, TextTypeSpec,
   BinaryTypeSpec, ListTypeSpec(I32TypeSpec), SetTypeSpec(TextTypeSpec),
   MapTypeSpec(TextTypeSpec, I32TypeSpec)} \cup ClassSpecs

\* Host values offered to a primitive spec: valid ones in the spec's own
\* host type, valid ones in another accepted type, and invalid ones.
Values(T) ==
  CASE T.kind = "bool" ->
         {HBool(TRUE), HBool(FALSE), HInt(0), HInt(1), HInt(2), HText(<<>>)}
    [] T.kind = "byte" -> {HInt(7), HInt(0 - 1), HInt(200), HBool(TRUE)}
    [] T.kind = "i16" -> {HInt(7), HInt(0 - 2), HInt(40000)}
    [] T.kind \in {"i32", "enum"} -> {HInt(5), HInt(0 - 3), HBytes(<<255>>)}
    [] T.kind \in {"string", "binary"} ->
         {HText(<<>>), HText(Hi), HText(<<233>>),
          HBytes(Hi), HBytes(<<195, 169>>), HBytes(<<255>>), HInt(1)}

\* no two items of s are equal: what a set's elements and a dict's keys are
Distinct(s) == \A i, j \in 1..Len(s) : i # j => ~HostEq(s[i], s[j])

RECURSIVE Candidates(_), Tuples(_, _), Constructed(_)

\* the attribute values (or keyword arguments) of a generated class, in the
\* order of the spec's fields; an attribute of class type holds None or an
\* instance that class's constructor returned
Tuples(T, n) ==
  IF n = 0 THEN {<<>>}
  ELSE LET S == T.fields[n].spec
       IN  {Append(s, x) : s \in Tuples(T, n - 1),
                           x \in {None} \cup (IF S.kind \in StructKinds \cup UnionKinds
                                                THEN Constructed(S) ELSE Candidates(S))}

\* the instances the constructor of T's class returns
Constructed(T) ==
  LET made == {surface(T, kwargs) : kwargs \in Tuples(T, Len(T.fields))}
  IN  {m.val : m \in {r \in made : r.err = "ok"}}

Candidates(T) ==
  CASE T.kind \in {"list", "set"} ->
         LET seqs == SeqsUpTo(Candidates(T.vspec), MaxLen)
         IN  {HList(s) : s \in seqs} \cup {HTuple(s) : s \in seqs}
               \cup {HSet(s) : s \in {q \in seqs : Distinct(q)}}
    [] T.kind = "map" ->
         LET items == Candidates(T.kspec) \X Candidates(T.vspec)
         IN  {HDict(s) : s \in {q \in SeqsUpTo(items, MaxLen) :
                                  Distinct([i \in 1..Len(q) |-> q[i][1]])}}
    [] T.kind \in StructKinds \cup UnionKinds ->
         {HObj(T.name, vals) : vals \in Tuples(T, Len(T.fields))}
    [] OTHER -> Values(T)

\* One field of a struct image: type:1 id:2 and the value's bytes.
FieldTypes ==
  {[type |-> I32, payload |-> EncI32(5)],
   [type |-> BINARY, payload |-> write_binary(Hi)],
   [type |-> STRUCT, payload |-> <<BINARY, 0, 1>> \o write_binary(Hi) \o <<STRUCT_END>>]}

FieldIds == {0, 1, 2, 7}

ImageFields == {[type |-> f.type, id |-> id, payload |-> f.payload] : f \in FieldTypes, id \in FieldIds}

RECURSIVE Flatten(_)
Flatten(fields) ==
  IF fields = <<>> THEN <<>>
  ELSE write_field_begin(FieldHeader(fields[1].type, fields[1].id))
         \o fields[1].payload \o Flatten(Tail(fields))

\* the image of the fields, closed by the struct end
Image(fields) == Flatten(fields) \o <<STRUCT_END>>

\* Constructor calls cls(*args, **kwargs): the values given are None, a
\* small int and an int outside i16; the names are the fields' and one
\* that is no field.
CallSpecs == {Range, Item}

CallValues == {None, HInt(5), HInt(40000)}

CallNames(T) == {T.fields[i].name : i \in 1..Len(T.fields)} \cup {"bogus"}

Calls(T) ==
  {[args |-> a, kwargs |-> k] :
     a \in SeqsUpTo(CallValues, MaxArgs),
     k \in UNION {[D -> CallValues] : D \in SUBSET CallNames(T)}}

\* Values offered to the integer specs: the ends of each signed range and
\* their neighbours (those beyond 32 bits as longs), and values that are
\* not integers.
IntSpecs == {ByteTypeSpec, I16TypeSpec, I32TypeSpec, I64TypeSpec}

RangeValues ==
  {HInt(n) : n \in {0, 0 - 1, 127, 128, 0 - 128, 0 - 129, 32767, 32768, 0 - 32768,
                    0 - 32769, 2147483647, 0 - 2147483647 - 1}}
    \cup {HLong(x) : x \in {<<0, 0, 32768, 0>>, <<0 - 1, 65535, 32767, 65535>>,
                             <<32767, 65535, 65535, 65535>>, <<32768, 0, 0, 0>>,
                             <<0 - 32768, 0, 0, 0>>, <<0 - 32769, 65535, 65535, 65535>>}}
    \cup {HBool(TRUE), HText(Hi), HFloat(1), None}

NoRes == [err |-> "none", val |-> None]

Init ==
  /\ py \in {2, 3}
  /\ tspec \in TypeSpecs \cup CallSpecs \cup IntSpecs
  /\ \/ pc = "value" /\ tspec \in TypeSpecs /\ hval \in Candidates(tspec)
     \/ pc = "args" /\ tspec \in ClassSpecs /\ hval \in Tuples(tspec, Len(tspec.fields))
     \/ pc = "image" /\ tspec \in ClassSpecs /\ hval \in SeqsUpTo(ImageFields, MaxFields)
     \/ pc = "call" /\ tspec \in CallSpecs /\ hval \in Calls(tspec)
     \/ pc = "range" /\ tspec \in IntSpecs /\ hval \in RangeValues
  /\ wb = <<>>
  /\ rb_data = <<>> /\ rb_offset = 0 /\ rb_last = NoCall
  /\ msg = Idle
  /\ res = [valid |-> "none", made |-> NoRes, direct |-> NoRes, wval |-> NoRes, wire |-> NoRes,
            prim |-> NoRes, back |-> NoRes]
  /\ heap = Idle /\ insts = Idle

Outcome(r) == [err |-> r.err, val |-> IF r.err = "ok" THEN r.val ELSE None]

\* tspec.validate(hval)
Validate ==
  /\ pc \in {"value", "range"}
  /\ res' = [res EXCEPT !.valid = validate(tspec, hval)]
  /\ pc' = IF pc = "value" THEN "validated" ELSE "ranged"
  /\ UNCHANGED <<rb_data, rb_offset, rb_last, msg, wb, tspec, hval, py, heap, insts>>

\* tspec.write_to(writer, hval) on a fresh WriteBuffer, for a validated value
WriteTo ==
  /\ pc = "validated"
  /\ res.valid = "ok"
  /\ wb' = wb \o write_to(tspec, hval)
  /\ pc' = "written"
  /\ UNCHANGED <<rb_data, rb_offset, rb_last, msg, tspec, hval, res, py, heap, insts>>

\* ReadBuffer(data)
OpenOver(data) ==
  /\ rb_data' = data
  /\ rb_offset' = 0
  /\ pc' = "open"
  /\ UNCHANGED <<rb_last, msg, wb, tspec, hval, res, py, heap, insts>>

OpenBytes == pc = "written" /\ OpenOver(wb)

OpenImage(cut) == pc = "image" /\ OpenOver(CutShort(Image(hval), cut))

\* tspec.read_from(reader)
ReadFrom ==
  /\ pc = "open"
  /\ LET r == read_from(tspec, rb_data, rb_offset)
     IN  /\ res' = [res EXCEPT !.direct = Outcome(r)]
         /\ rb_offset' = r.o
  /\ pc' = "read"
  /\ UNCHANGED <<rb_data, rb_last, msg, wb, tspec, hval, py, heap, insts>>

\* protocol.deserialize_value(tspec.ttype_code, data)
DeserializeValue ==
  /\ pc = "read"
  /\ res' = [res EXCEPT !.wval = Outcome(deserialize_value(ttype_code(tspec), rb_data))]
  /\ pc' = "deserialized"
  /\ UNCHANGED <<rb_data, rb_offset, rb_last, msg, wb, tspec, hval, py, heap, insts>>

\* tspec.from_wire(wire_value)
FromWire ==
  /\ pc = "deserialized"
  /\ res.wval.err = "ok"
  /\ res' = [res EXCEPT !.wire = from_wire(tspec, res.wval.val)]
  /\ pc' = "done"
  /\ UNCHANGED <<rb_data, rb_offset, rb_last, msg, wb, tspec, hval, py, heap, insts>>

\* tspec.surface(**hval)
Construct ==
  /\ pc = "args"
  /\ res' = [res EXCEPT !.made = surface(tspec, hval)]
  /\ pc' = "constructed"
  /\ UNCHANGED <<rb_data, rb_offset, rb_last, msg, wb, tspec, hval, py, heap, insts>>

\* tspec.surface(*hval.args, **hval.kwargs)
Call ==
  /\ pc = "call"
  /\ res' = [res EXCEPT !.made = struct_init_call(tspec, hval.args, hval.kwargs)]
  /\ pc' = "called"
  /\ UNCHANGED <<rb_data, rb_offset, rb_last, msg, wb, tspec, hval, py, heap, insts>>

\* tspec.to_primitive(hval), for a validated value
ToPrimitive ==
  /\ pc = "validated"
  /\ res.valid = "ok"
  /\ res' = [res EXCEPT !.prim = to_primitive(tspec, hval)]
  /\ pc' = "primitive"
  /\ UNCHANGED <<rb_data, rb_offset, rb_last, msg, wb, tspec, hval, py, heap, insts>>

\* the mapping with one more key, which names no field
WithUnknownKey(prim_value) ==
  IF prim_value[1] = "named" THEN HNamed(Append(prim_value[2], <<"bogus", HInt(1)>>))
  ELSE prim_value

\* tspec.from_primitive(p), p being the primitive form as to_primitive
\* returned it or with a key that no field has
FromPrimitive(unknown) ==
  /\ pc = "primitive"
  /\ res.prim.err = "ok"
  /\ res' = [res EXCEPT !.back =
                from_primitive(tspec, IF unknown THEN WithUnknownKey(res.prim.val)
                                      ELSE res.prim.val)]
  /\ pc' = IF unknown THEN "restored_more" ELSE "restored"
  /\ UNCHANGED <<rb_data, rb_offset, rb_last, msg, wb, tspec, hval, py, heap, insts>>

Next ==
  \/ Validate
  \/ WriteTo
  \/ ToPrimitive
  \/ \E unknown \in BOOLEAN : FromPrimitive(unknown)
  \/ OpenBytes
  \/ \E cut \in 0..MaxCut : OpenImage(cut)
  \/ ReadFrom
  \/ DeserializeValue
  \/ FromWire
  \/ Construct
  \/ Call

Spec == Init /\ [][Next]_vars

(***************************************************************************)
(* Claims about the codec of the type specs.                               *)
(***************************************************************************)

\* the bytes the layout of a struct asks for, from field i on
RECURSIVE C8_Layout(_, _, _)
C8_Layout(T, vals, i) ==
  IF i > Len(T.fields) THEN <<0>>
  ELSE IF vals[i] = None THEN C8_Layout(T, vals, i + 1)
  ELSE <<ttype_code(T.fields[i].spec), T.fields[i].id \div 256, T.fields[i].id % 256>>
         \o write_to(T.fields[i].spec, vals[i])
         \o C8_Layout(T, vals, i + 1)

\* C8: StructTypeSpec.write_to emits, for each field in declaration order
\* whose value is not None, the header ttype:1 id:2 (big-endian) and the
\* value's encoding, nothing for a None field, and one closing 0 byte; a
\* struct with `required string name` at id 1 and value "Hi" is written as
\* 0B 00 01 00 00 00 02 48 69 00.
C8_StructLayout ==
  (pc = "written" /\ tspec.kind \in StructKinds) =>
    /\ wb = C8_Layout(tspec, hval[2].vals, 1)
    /\ wb[Len(wb)] = 0
    /\ (tspec = Named /\ hval = HObj("Named", <<HText(Hi)>>)) =>
         wb = <<11, 0, 1, 0, 0, 0, 2, 72, 105, 0>>
    /\ (tspec = Item /\ hval = HObj("Item", <<HInt(5), None, HInt(0 - 3)>>)) =>
         wb = <<8, 0, 1, 0, 0, 0, 5, 8, 0, 7, 255, 255, 255, 253, 0>>

\* C8 witness: the struct Named("Hi") has been written
C8_Witness ==
  /\ pc = "written" /\ tspec = Named /\ hval = HObj("Named", <<HText(Hi)>>)
  /\ wb = <<11, 0, 1, 0, 0, 0, 2, 72, 105, 0>>

\* the fields of the keyword arguments that are not None
C9_Given == {i \in 1..Len(hval) : hval[i] # None}

\* the constructor of a union that does not allow the empty value has run
C9_Constructed == pc = "constructed" /\ tspec.kind \in UnionKinds /\ ~tspec.allow_empty

\* two or more values raise TypeError; one valid value succeeds
C9_OneOf ==
  /\ Cardinality(C9_Given) >= 2 => res.made.err = "TypeError"
  /\ \A i \in C9_Given :
       (C9_Given = {i} /\ validate(tspec.fields[i].spec, hval[i]) = "ok") =>
         res.made = Made(HObj(tspec.name, hval))

ReadsImage == pc \in {"read", "deserialized", "done"} /\ wb = <<>>

\* the reader was opened over the bytes written for hval
ReadsWritten == pc \in {"read", "deserialized", "done"} /\ wb # <<>>

\* the image in the reader is the whole (uncut) image of the fields of hval
Uncut == ReadsImage /\ rb_data = Image(hval)

\* the function of result spec T has a return type: T has the field `success`
C10_HasReturnType(T) == \E i \in 1..Len(T.fields) : T.fields[i].id = 0

\* an image in which every field has id 0 and is not of the type of T's
\* `success`: neither `success` nor any exception field is present
C10_NothingPresent(T, fields) ==
  \A k \in 1..Len(fields) :
    /\ fields[k].id = 0
    /\ \A i \in 1..Len(T.fields) :
         T.fields[i].id = 0 => ttype_code(T.fields[i].spec) # fields[k].type

\* C10: a function's response union allows the empty value exactly when
\* the function has no return type: response() of a void function
\* constructs; with a return type, constructing, reading or converting from
\* the wire a response holding neither `success` nor an exception raises
\* TypeError.
C10_EmptyResponse ==
  tspec.kind = "result" =>
    /\ tspec.allow_empty <=> ~C10_HasReturnType(tspec)
    /\ (pc = "constructed" /\ C9_Given = {}) =>
         IF C10_HasReturnType(tspec) THEN res.made.err = "TypeError"
         ELSE res.made = Made(HObj(tspec.name, hval))
    /\ (Uncut /\ C10_HasReturnType(tspec) /\ C10_NothingPresent(tspec, hval)) =>
         /\ res.direct.err = "TypeError"
         /\ pc = "done" => res.wire.err = "TypeError"

\* C10 witness: an image holding only an unrecognised field 0 was read and
\* converted for the response of getFoo, and both raised TypeError
C10_Witness ==
  /\ pc = "done" /\ tspec = GetFooResult /\ Uncut
  /\ Len(hval) = 1 /\ hval[1].id = 0 /\ hval[1].type = BINARY
  /\ res.direct.err = "TypeError" /\ res.wire.err = "TypeError"

\* the image field has the id and the ttype of one of T's fields
C5_Matches(T, f) ==
  \E i \in 1..Len(T.fields) :
    T.fields[i].id = f.id /\ ttype_code(T.fields[i].spec) = f.type

\* the image fields without the additional ones
C5_Known(T, fields) == SelectSeq(fields, LAMBDA f : C5_Matches(T, f))

\* the host value of the payload the images carry for a ttype
C5_Decoded(type) == IF type = I32 THEN HInt(5) ELSE HText(Hi)

\* the constructor arguments the matching fields of the image give
C5_Kwargs(T, fields) ==
  [i \in 1..Len(T.fields) |->
     IF \E k \in 1..Len(fields) :
          fields[k].id = T.fields[i].id /\ fields[k].type = ttype_code(T.fields[i].spec)
       THEN C5_Decoded(ttype_code(T.fields[i].spec))
       ELSE None]

\* C5: StructTypeSpec.read_from reads a wire field with its field spec only
\* when the header's id is in the index and its ttype is the field spec's;
\* every other field of a known ttype is skipped without error, so the
\* result is the one the matching fields alone give, and it is the result
\* of reading the image with the additional fields removed.
C5_SkipEquivalence ==
  (Uncut /\ tspec.kind \in StructKinds) =>
    /\ res.direct = surface(tspec, C5_Kwargs(tspec, hval))
    /\ res.direct = Outcome(read_from(tspec, Image(C5_Known(tspec, hval)), 0))
    /\ rb_offset = Len(rb_data)

\* C5 witness: Item was read from an image whose field 1 comes first as a
\* struct (known id, other ttype) and then as the i32 the spec declares
C5_Witness ==
  /\ Uncut /\ tspec = Item /\ Len(hval) = 2
  /\ hval[1].id = 1 /\ hval[1].type = STRUCT
  /\ hval[2].id = 1 /\ hval[2].type = I32
  /\ res.direct = Made(HObj("Item", <<HInt(5), None, HInt(7)>>))

\* some field of the image has an id that is neither 0 nor a declared
\* exception id of T
C6_UndeclaredId(T, fields) ==
  \E k \in 1..Len(fields) : fields[k].id # 0 /\ fields[k].id \notin T.exception_ids

\* C6 (as claimed): reading a function result, read_from and from_wire
\* raise UnknownExceptionError exactly when some wire field has an id that
\* is neither 0 nor a declared exception id; anything else unknown is
\* skipped.
C6_ExactlyUndeclaredIds ==
  (Uncut /\ tspec.kind = "result") =>
    /\ res.direct.err = "UnknownExceptionError" <=> C6_UndeclaredId(tspec, hval)
    /\ pc = "done" =>
         (res.wire.err = "UnknownExceptionError" <=> C6_UndeclaredId(tspec, hval))

\* C6, the half that from_wire keeps: converting a function result from
\* its wire value raises UnknownExceptionError exactly when some wire field
\* has an id that is neither 0 nor a declared exception id.
C6_FromWireExactly ==
  (Uncut /\ tspec.kind = "result" /\ pc = "done") =>
    (res.wire.err = "UnknownExceptionError" <=> C6_UndeclaredId(tspec, hval))

\* C6: the response of getFoo was read from an image whose only field has
\* the declared exception id 1 and the ttype i32, and read_from raised
\* UnknownExceptionError where from_wire did not
C6_Divergence ==
  /\ Uncut /\ pc = "done" /\ tspec = GetFooResult
  /\ Len(hval) = 1 /\ hval[1].id = 1 /\ hval[1].type = I32
  /\ res.direct.err = "UnknownExceptionError"
  /\ res.wire.err = "TypeError"

\* C2 (as claimed): for every type spec and every byte string, read_from
\* over the bytes and from_wire of deserialize_value of the bytes either
\* both return equal host values or both fail with the same kind of error.
C2_SameOutcome ==
  /\ pc = "done" =>
       /\ res.direct.err = res.wire.err
       /\ res.direct.err = "ok" => HostEq(res.direct.val, res.wire.val)
  /\ (pc = "deserialized" /\ res.wval.err # "ok") => res.direct.err = res.wval.err

\* C2: Body was read from an image carrying both of its fields, and
\* read_from raised TypeError where from_wire returned the first field
C2_Divergence ==
  /\ Uncut /\ pc = "done" /\ tspec = Body /\ Len(hval) = 2
  /\ hval[1].id = 1 /\ hval[1].type = BINARY
  /\ hval[2].id = 2 /\ hval[2].type = I32
  /\ res.direct.err = "TypeError"
  /\ res.wire = Made(HObj("Body", <<HText(Hi), None>>))

\* v is in the host form read_from returns for T: text for a string, bytes
\* for a binary, a bool (or the int 0 or 1) for a bool, a list for a list,
\* a set for a set, a dict for a map, and an instance with no defaulted
\* field left at None
RECURSIVE C1_Canonical(_, _)
C1_Canonical(T, v) ==
  CASE T.kind = "bool" -> v[1] = "bool" \/ (v[1] = "int" /\ v[2] \in {0, 1})
    [] T.kind \in {"byte", "i16", "i32", "enum"} -> v[1] \in {"bool", "int"}
    [] T.kind = "string" -> v[1] = "text"
    [] T.kind = "binary" -> v[1] = "bytes"
    [] T.kind = "list" ->
         v[1] = "list" /\ \A i \in 1..Len(v[2]) : C1_Canonical(T.vspec, v[2][i])
    [] T.kind = "set" ->
         v[1] = "set" /\ \A i \in 1..Len(v[2]) : C1_Canonical(T.vspec, v[2][i])
    [] T.kind = "map" ->
         /\ v[1] = "dict"
         /\ \A i \in 1..Len(v[2]) :
              C1_Canonical(T.kspec, v[2][i][1]) /\ C1_Canonical(T.vspec, v[2][i][2])
    [] T.kind \in StructKinds \cup UnionKinds ->
         /\ v[1] = "obj"
         /\ \A i \in 1..Len(T.fields) :
              IF v[2].vals[i] = None THEN T.fields[i].default_value = None
              ELSE C1_Canonical(T.fields[i].spec, v[2].vals[i])

C11_Order(T) ==
  LET all == [i \in 1..Len(T.fields) |-> i]
      needed(i) == T.fields[i].required /\ T.fields[i].default_value = None
  IN  SelectSeq(all, needed) \o SelectSeq(all, LAMBDA i : ~needed(i))

\* the value the call binds to the field at position p of that order
C11_Bound(T, call, p) ==
  LET name == T.fields[C11_Order(T)[p]].name
  IN  IF p <= Len(call.args) THEN call.args[p]
      ELSE IF name \in DOMAIN call.kwargs THEN call.kwargs[name]
      ELSE None

\* the positions of the required fields without a default that end up None
C11_Missing(T, call) ==
  {p \in 1..Len(T.fields) :
     /\ T.fields[C11_Order(T)[p]].required
     /\ T.fields[C11_Order(T)[p]].default_value = None
     /\ C11_Bound(T, call, p) = None}

\* a successful call leaves every required field non-None and every field
\* with a default that was not given, or given None, equal to the default
C11_Success ==
  res.made.err = "ok" =>
    \A p \in 1..Len(tspec.fields) :
      LET i == C11_Order(tspec)[p]
          held == res.made.val[2].vals[i]
      IN  /\ tspec.fields[i].required => held # None
          /\ IF C11_Bound(tspec, hval, p) # None THEN held = C11_Bound(tspec, hval, p)
             ELSE HostEq(held, tspec.fields[i].default_value)

MaxInsts == 2      \* most instances constructed
MaxItems == 2      \* longest list a mutation may grow

IntItem(n) == <<"int", n>>
RefItem(ref) == <<"ref", ref>>

\* the object FieldSpec.default_value refers to
DefaultRef == 1

\* struct Tagged { 1: optional list<list<i32>> tags = [[7]] }
Tagged ==
  StructTypeSpec("Tagged",
    <<FieldSpec(1, "tags", ListTypeSpec(ListTypeSpec(I32TypeSpec)), FALSE,
                RefItem(DefaultRef))>>)

\* the heap when Tagged has been compiled: the list [[7]] and its inner list
DeclaredHeap == << <<RefItem(2)>>, <<IntItem(7)>> >>

\* a copy that would hand out the object itself
deepcopy_Alias(h, ref) == [heap |-> h, ref |-> ref]

\* copy.deepcopy(obj): a new object whose items are copies of obj's items
RECURSIVE deepcopy(_, _), deepcopy_items(_, _, _, _)
deepcopy(h, ref) ==
  LET r == deepcopy_items(h, h[ref], 1, <<>>)
  IN  [heap |-> Append(r.heap, r.items), ref |-> Len(r.heap) + 1]

deepcopy_items(h, items, i, out) ==
  IF i > Len(items) THEN [heap |-> h, items |-> out]
  ELSE IF items[i][1] = "ref"
    THEN LET c == deepcopy(h, items[i][2])
         IN  deepcopy_items(c.heap, items, i + 1, Append(out, RefItem(c.ref)))
  ELSE deepcopy_items(h, items, i + 1, Append(out, items[i]))

\* the host value of an object: the list of its items' values
RECURSIVE Deref(_, _)
Deref(h, ref) ==
  HList([i \in 1..Len(h[ref]) |->
           IF h[ref][i][1] = "ref" THEN Deref(h, h[ref][i][2]) ELSE HInt(h[ref][i][2])])

\* the objects an instance can reach through its field
Reachable(h, ref) ==
  {ref} \cup {h[ref][i][2] : i \in {j \in 1..Len(h[ref]) : h[ref][j][1] = "ref"}}

InitDefaults ==
  /\ heap = DeclaredHeap
  /\ insts = <<>>
  /\ tspec = Tagged
  /\ pc = "heap"
  /\ rb_data = <<>> /\ rb_offset = 0 /\ rb_last = NoCall
  /\ msg = Idle /\ wb = Idle /\ hval = Idle /\ res = Idle /\ py = Idle

\* Tagged(): struct_init finds no value for `tags` and sets the attribute
\* to copy.deepcopy(field_spec.default_value)
NewDefaulted ==
  /\ Len(insts) < MaxInsts
  /\ LET value == deepcopy(heap, tspec.fields[1].default_value[2])
     IN  /\ heap' = value.heap
         /\ insts' = Append(insts, value.ref)
  /\ UNCHANGED <<rb_data, rb_offset, rb_last, msg, wb, pc, tspec, hval, res, py>>

\* instance.tags.append(9) or instance.tags[k].append(9)
AppendItem(n, ref) ==
  /\ n \in 1..Len(insts)
  /\ ref \in Reachable(heap, insts[n])
  /\ Len(heap[ref]) < MaxItems
  /\ heap' = [heap EXCEPT ![ref] = Append(@, IntItem(9))]
  /\ UNCHANGED <<rb_data, rb_offset, rb_last, msg, wb, pc, tspec, hval, res, py, insts>>

\* instance.tags.pop() or instance.tags[k].pop()
PopItem(n, ref) ==
  /\ n \in 1..Len(insts)
  /\ ref \in Reachable(heap, insts[n])
  /\ heap[ref] # <<>>
  /\ heap' = [heap EXCEPT ![ref] = SubSeq(@, 1, Len(@) - 1)]
  /\ UNCHANGED <<rb_data, rb_offset, rb_last, msg, wb, pc, tspec, hval, res, py, insts>>

NextDefaults ==
  \/ NewDefaulted
  \/ \E n \in 1..MaxInsts, ref \in 1..Len(heap) : AppendItem(n, ref)
  \/ \E n \in 1..MaxInsts, ref \in 1..Len(heap) : PopItem(n, ref)

SpecDefaults == InitDefaults /\ [][NextDefaults]_vars

\* the value the default was declared with
C12_Declared == HList(<<HList(<<HInt(7)>>)>>)

\* C12: whatever instances took the default and however the value they hold
\* was mutated, FieldSpec.default_value still refers to an object equal to
\* the declared default, and each construction that omits the field
\* receives a value equal to the declared default.
C12_NoLeak ==
  [][/\ tspec' = tspec
     /\ Deref(heap', tspec'.fields[1].default_value[2]) = C12_Declared
     /\ Len(insts') > Len(insts) => Deref(heap', insts'[Len(insts')]) = C12_Declared]_vars

\* C12 witness: the first instance's value was mutated and the second
\* instance, like the default, has the declared value
C12_Witness ==
  /\ pc = "heap" /\ Len(insts) = 2
  /\ Deref(heap, insts[1]) = HList(<<HList(<<HInt(7), HInt(9)>>), HInt(9)>>)
  /\ Deref(heap, insts[2]) = C12_Declared
  /\ Deref(heap, DefaultRef) = C12_Declared


\* ---------------------------------------------------------------------
\* C13  Signed-range validation
\* ---------------------------------------------------------------------

\* the width of an integer spec
C13_Width == [byte |-> 8, i16 |-> 16, i32 |-> 32, i64 |-> 64]

\* -2^(n-1) and 2^(n-1) - 1, written out limb by limb
C13_Min(n) ==
  CASE n = 8 -> <<0 - 1, 65535, 65535, 65408>>
    [] n = 16 -> <<0 - 1, 65535, 65535, 32768>>
    [] n = 32 -> <<0 - 1, 65535, 32768, 0>>
    [] n = 64 -> <<0 - 32768, 0, 0, 0>>

C13_Max(n) ==
  CASE n = 8 -> <<0, 0, 0, 127>>
    [] n = 16 -> <<0, 0, 0, 32767>>
    [] n = 32 -> <<0, 0, 32767, 65535>>
    [] n = 64 -> <<32767, 65535, 65535, 65535>>

\* -2^(n-1) <= v <= 2^(n-1) - 1
C13_Fits(n, v) == ~WideLess(v, C13_Min(n)) /\ ~WideLess(C13_Max(n), v)

\* C13: for the byte, i16, i32 and i64 specs, validate accepts an integral
\* value v exactly when -2^(n-1) <= v <= 2^(n-1) - 1, raises ValueError for
\* any other integral value, and raises TypeError for a value that is not
\* integral.
C13_SignedRange ==
  pc = "ranged" =>
    res.valid = IF hval[1] \notin {"bool", "int", "long"} THEN "TypeError"
                ELSE IF C13_Fits(C13_Width[tspec.kind], WideOf(hval)) THEN "ok"
                ELSE "ValueError"

\* 2^63 - 1 is accepted by the i64 spec
C13_Witness ==
  /\ pc = "ranged"
  /\ tspec = I64TypeSpec
  /\ hval = HLong(<<32767, 65535, 65535, 65535>>)
  /\ res.valid = "ok"

\* 2^63 is refused by the i64 spec with ValueError
C13_WitnessOver ==
  /\ pc = "ranged"
  /\ tspec = I64TypeSpec
  /\ hval = HLong(<<32768, 0, 0, 0>>)
  /\ res.valid = "ValueError"


\* =====================================================================
\* Scenario 5: compiling the AST of a definition into a spec
\* =====================================================================
\*
\* hval holds the AST node (the parser's output), res the outcome of
\* compile.  An attribute of a node that may be None is None or a host
\* value: a field's id is None or an HInt, its requiredness None or an
\* HBool, its default None or a constant.

MaxAstFields == 2   \* most fields in a struct or union definition
MaxEnumItems == 2   \* most items in an enum definition
MaxEnumValue == 3   \* largest value looked up in an enum

\* idl.Field
AstField(id, name, field_type, requiredness, default) ==
  [id |-> id, name |-> name, field_type |-> field_type,
   requiredness |-> requiredness, default |-> default]

\* idl.PrimitiveType and idl.DefinedType
AstPrimitive(name) == [ast |-> "primitive", name |-> name]
AstDefined(name) == [ast |-> "defined", name |-> name]

\* idl.ConstPrimitiveValue
AstConst(n) == <<"const", n>>

TypeReference(name) == [kind |-> "ref", name |-> name]

\* spec_mapper.type_spec_or_ref: a primitive type maps to its spec, the
\* name of a defined type to a reference that link resolves
type_spec_or_ref(t) ==
  IF t.ast = "defined" THEN TypeReference(t.name)
  ELSE CASE t.name = "i32" -> I32TypeSpec
         [] t.name = "i16" -> I16TypeSpec
         [] t.name = "bool" -> BoolTypeSpec
         [] t.name = "string" -> TextTypeSpec

\* const.const_value_or_ref: a primitive constant becomes a ConstValuePrimitive
const_value_or_ref(c) == <<"ConstValuePrimitive", c[2]>>

FieldSpec_compile(field, struct_name, require_requiredness) ==
  IF field.id = None THEN Raised("ThriftCompilerError")
  ELSE IF field.requiredness = None /\ require_requiredness
    THEN Raised("ThriftCompilerError")
  ELSE Made(FieldSpec(IntOf(field.id),
                      field.name,
                      type_spec_or_ref(field.field_type),
                      IF field.requiredness = None THEN FALSE ELSE field.requiredness[2],
                      IF field.default # None THEN const_value_or_ref(field.default)
                      ELSE None))

\* the loop of StructTypeSpec.compile from field i on, with the ids and
\* names seen and the fields compiled so far
RECURSIVE StructTypeSpec_compile_from(_, _, _, _, _, _)
StructTypeSpec_compile_from(struct, require_requiredness, i, ids, names, fields) ==
  IF i > Len(struct.fields) THEN Made(StructTypeSpec(struct.name, fields))
  ELSE IF struct.fields[i].name \in names THEN Raised("ThriftCompilerError")
  ELSE IF struct.fields[i].id \in ids THEN Raised("ThriftCompilerError")
  ELSE LET f == FieldSpec_compile(struct.fields[i], struct.name, require_requiredness)
       IN  IF f.err # "ok" THEN f
           ELSE StructTypeSpec_compile_from(struct, require_requiredness, i + 1,
                                            ids \cup {struct.fields[i].id},
                                            names \cup {struct.fields[i].name},
                                            Append(fields, f.val))

\* a compile that would take every field as it comes
StructTypeSpec_compile_Unchecked(struct, require_requiredness) ==
  Made(StructTypeSpec(struct.name,
         [i \in 1..Len(struct.fields) |->
            FieldSpec(IF struct.fields[i].id = None THEN 0 ELSE IntOf(struct.fields[i].id),
                      struct.fields[i].name,
                      type_spec_or_ref(struct.fields[i].field_type),
                      struct.fields[i].requiredness = HBool(TRUE), None)]))

StructTypeSpec_compile(struct, require_requiredness) ==
  StructTypeSpec_compile_from(struct, require_requiredness, 1, {}, {}, <<>>)

\* the loop of UnionTypeSpec.compile from field i on
RECURSIVE UnionTypeSpec_compile_from(_, _, _, _, _)
UnionTypeSpec_compile_from(union, i, ids, names, fields) ==
  \* cls(union.name, fields) leaves allow_empty at None, which is false
  IF i > Len(union.fields) THEN Made(UnionTypeSpec(union.name, fields, FALSE))
  ELSE IF union.fields[i].name \in names THEN Raised("ThriftCompilerError")
  ELSE IF union.fields[i].id \in ids THEN Raised("ThriftCompilerError")
  ELSE IF union.fields[i].requiredness = HBool(TRUE) THEN Raised("ThriftCompilerError")
  ELSE IF union.fields[i].default # None THEN Raised("ThriftCompilerError")
  ELSE LET f == FieldSpec_compile(union.fields[i], union.name, FALSE)
       IN  IF f.err # "ok" THEN f
           ELSE UnionTypeSpec_compile_from(union, i + 1,
                                           ids \cup {union.fields[i].id},
                                           names \cup {union.fields[i].name},
                                           Append(fields, f.val))

\* a compile that would treat a union as a struct without require_requiredness
UnionTypeSpec_compile_AsStruct(union) ==
  LET r == StructTypeSpec_compile(union, FALSE)
  IN  IF r.err # "ok" THEN r ELSE Made(UnionTypeSpec(union.name, r.val.fields, FALSE))

UnionTypeSpec_compile(union) == UnionTypeSpec_compile_from(union, 1, {}, {}, <<>>)

\* [FieldSpec.compile(field, struct_name, False) for field in fields]
RECURSIVE FieldSpec_compile_each(_, _, _, _)
FieldSpec_compile_each(fields, struct_name, i, specs) ==
  IF i > Len(fields) THEN Made(specs)
  ELSE LET f == FieldSpec_compile(fields[i], struct_name, FALSE)
       IN  IF f.err # "ok" THEN f
           ELSE FieldSpec_compile_each(fields, struct_name, i + 1, Append(specs, f.val))

\* a return type, a return spec or a result spec that is None
AstVoid == [ast |-> "void"]

\* '%s_%s_request' and '%s_%s_response'
ImplicitName(service_name, function_name, suffix) == <<service_name, function_name, suffix>>

FunctionArgsSpec_compile(parameters, service_name, function_name) ==
  LET args_name == ImplicitName(service_name, function_name, "request")
      param_specs == FieldSpec_compile_each(parameters, args_name, 1, <<>>)
  IN  IF param_specs.err # "ok" THEN param_specs
      ELSE Made(StructTypeSpec(args_name, param_specs.val))

FunctionResultSpec_compile(return_type, exceptions, service_name, function_name) ==
  LET result_name == ImplicitName(service_name, function_name, "response")
      return_spec == IF return_type # AstVoid THEN type_spec_or_ref(return_type) ELSE NoSpec
      exc_specs == FieldSpec_compile_each(exceptions, result_name, 1, <<>>)
  IN  IF exc_specs.err # "ok" THEN exc_specs
      ELSE Made(FunctionResultSpec(result_name, return_spec, exc_specs.val))

FunctionSpec(name, args_spec, result_spec, oneway) ==
  [kind |-> "function", name |-> name, args_spec |-> args_spec,
   result_spec |-> result_spec, oneway |-> oneway]

\* a compile that would build a result spec for every function
FunctionSpec_compile_AlwaysResult(func, service_name) ==
  LET args_spec == FunctionArgsSpec_compile(func.parameters, service_name, func.name)
      result_spec == FunctionResultSpec_compile(func.return_type, func.exceptions,
                                                service_name, func.name)
  IN  IF args_spec.err # "ok" THEN args_spec
      ELSE IF result_spec.err # "ok" THEN result_spec
      ELSE Made(FunctionSpec(func.name, args_spec.val, result_spec.val, func.oneway))

FunctionSpec_compile(func, service_name) ==
  LET args_spec == FunctionArgsSpec_compile(func.parameters, service_name, func.name)
      result_spec == FunctionResultSpec_compile(func.return_type, func.exceptions,
                                                service_name, func.name)
  IN  IF args_spec.err # "ok" THEN args_spec
      ELSE IF func.oneway
        THEN IF func.return_type # AstVoid THEN Raised("ThriftCompilerError")
             ELSE IF func.exceptions # <<>> THEN Raised("ThriftCompilerError")
             ELSE Made(FunctionSpec(func.name, args_spec.val, NoSpec, func.oneway))
      ELSE IF result_spec.err # "ok" THEN result_spec
      ELSE Made(FunctionSpec(func.name, args_spec.val, result_spec.val, func.oneway))

\* A dict is the sequence of its <<key, value>> entries in insertion order.
\* Iterating it visits the entries in insertion order on Python 3.7 and
\* later (py = 3) and in an order of the interpreter's choosing before
\* (py = 2).
DictOrders(p, n) ==
  IF p = 3 THEN {[k \in 1..n |-> k]}
  ELSE {order \in [1..n -> 1..n] : \A i, j \in 1..n : i # j => order[i] # order[j]}

\* EnumTypeSpec.__init__, its loop over items.items() taken in `order`
EnumTypeSpec_init(name, items, order) ==
  LET visited == [k \in 1..Len(items) |-> items[order[k]]]
      names(value) == SelectSeq(visited, LAMBDA e : e[2] = value)
  IN  [kind |-> "enum", name |-> name, items |-> items,
       values_to_names |->
         [value \in {items[k][2] : k \in 1..Len(items)} |->
            [k \in 1..Len(names(value)) |-> names(value)[k][1]]]]

\* the loop of EnumTypeSpec.compile from item i on
RECURSIVE EnumTypeSpec_compile_from(_, _, _, _, _)
EnumTypeSpec_compile_from(enum, i, prev, items, order) ==
  IF i > Len(enum.items) THEN Made(EnumTypeSpec_init(enum.name, items, order))
  ELSE LET value == IF enum.items[i].value = None THEN prev + 1
                    ELSE IntOf(enum.items[i].value)
       IN  IF \E k \in 1..Len(items) : items[k][1] = enum.items[i].name
             THEN Raised("ThriftCompilerError")
           ELSE EnumTypeSpec_compile_from(enum, i + 1, value,
                                          Append(items, <<enum.items[i].name, value>>), order)

EnumTypeSpec_compile(enum, order) == EnumTypeSpec_compile_from(enum, 1, 0 - 1, <<>>, order)

\* a lookup that would return the last of the names
name_of_Last(values_to_names, value) ==
  IF value \in DOMAIN values_to_names /\ values_to_names[value] # <<>>
    THEN HText(values_to_names[value][Len(values_to_names[value])])
    ELSE None

\* name_of of the generated class, over its _VALUES_TO_NAMES
name_of(values_to_names, value) ==
  IF value \in DOMAIN values_to_names /\ values_to_names[value] # <<>>
    THEN HText(values_to_names[value][1])
    ELSE None

\* The definitions offered to compile.
AstIds == {None, HInt(1), HInt(2)}
AstNames == {"a", "b"}
AstRequiredness == {None, HBool(TRUE), HBool(FALSE)}
AstDefaults == {None, AstConst(7)}

AstFields ==
  {AstField(id, name, AstPrimitive("i32"), r, d) :
     id \in AstIds, name \in AstNames, r \in AstRequiredness, d \in AstDefaults}

AstStructs ==
  {[ast |-> "struct", name |-> "S", fields |-> fs] : fs \in SeqsUpTo(AstFields, MaxAstFields)}

AstUnions ==
  {[ast |-> "union", name |-> "U", fields |-> fs] : fs \in SeqsUpTo(AstFields, MaxAstFields)}

\* parameters and declared exceptions of a function
AstParams ==
  {AstField(id, name, AstPrimitive("i32"), None, None) :
     id \in {None, HInt(0), HInt(1)}, name \in {"a", "success"}}

AstRaises ==
  {AstField(id, name, AstDefined("NotFound"), None, None) :
     id \in {None, HInt(0), HInt(1)}, name \in {"a", "success"}}

AstFunctions ==
  {[ast |-> "function", name |-> "f", parameters |-> ps, return_type |-> rt,
    exceptions |-> es, oneway |-> ow] :
     ps \in SeqsUpTo(AstParams, MaxAstFields), rt \in {AstVoid, AstPrimitive("i32")},
     es \in SeqsUpTo(AstRaises, MaxAstFields), ow \in BOOLEAN}

\* idl.EnumItem
AstEnumItems ==
  {[name |-> name, value |-> value] :
     name \in {"A", "B"}, value \in {None, HInt(0), HInt(1)}}

AstEnums ==
  {[ast |-> "enum", name |-> "E", items |-> items] :
     items \in SeqsUpTo(AstEnumItems, MaxEnumItems)}

InitCompile ==
  /\ hval \in AstStructs \cup AstUnions \cup AstFunctions \cup AstEnums
  /\ pc = "ast"
  /\ res = NoRes
  /\ rb_data = <<>> /\ rb_offset = 0 /\ rb_last = NoCall
  /\ msg = Idle /\ wb = Idle /\ tspec = Idle /\ heap = Idle /\ insts = Idle
  /\ IF hval.ast = "enum" THEN py \in {2, 3} ELSE py = Idle

\* StructTypeSpec.compile(struct, require_requiredness); tspec records the
\* require_requiredness it was called with
CompileStruct(require_requiredness) ==
  /\ pc = "ast"
  /\ hval.ast = "struct"
  /\ res' = StructTypeSpec_compile(hval, require_requiredness)
  /\ tspec' = [require_requiredness |-> require_requiredness]
  /\ pc' = "compiled"
  /\ UNCHANGED <<rb_data, rb_offset, rb_last, msg, wb, hval, py, heap, insts>>

\* UnionTypeSpec.compile(union)
CompileUnion ==
  /\ pc = "ast"
  /\ hval.ast = "union"
  /\ res' = UnionTypeSpec_compile(hval)
  /\ pc' = "compiled"
  /\ UNCHANGED <<rb_data, rb_offset, rb_last, msg, wb, tspec, hval, py, heap, insts>>

\* FunctionSpec.compile(func, service_name)
CompileFunction ==
  /\ pc = "ast"
  /\ hval.ast = "function"
  /\ res' = FunctionSpec_compile(hval, "Svc")
  /\ pc' = "compiled"
  /\ UNCHANGED <<rb_data, rb_offset, rb_last, msg, wb, tspec, hval, py, heap, insts>>

\* EnumTypeSpec.compile(enum)
CompileEnum(order) ==
  /\ pc = "ast"
  /\ hval.ast = "enum"
  /\ res' = EnumTypeSpec_compile(hval, order)
  /\ pc' = "compiled"
  /\ UNCHANGED <<rb_data, rb_offset, rb_last, msg, wb, tspec, hval, py, heap, insts>>

\* name_of(value) on the class of a compiled enum; tspec records the
\* value and the name returned
NameOf(value) ==
  /\ pc = "compiled"
  /\ hval.ast = "enum"
  /\ res.err = "ok"
  /\ tspec' = [value |-> value, name |-> name_of(res.val.values_to_names, value)]
  /\ pc' = "named"
  /\ UNCHANGED <<rb_data, rb_offset, rb_last, msg, wb, hval, res, py, heap, insts>>

NextCompile ==
  \/ \E require_requiredness \in BOOLEAN : CompileStruct(require_requiredness)
  \/ CompileUnion
  \/ CompileFunction
  \/ /\ pc = "ast" /\ hval.ast = "enum"
     /\ \E order \in DictOrders(py, Len(hval.items)) : CompileEnum(order)
  \/ \E value \in 0..MaxEnumValue : NameOf(value)

SpecCompile == InitCompile /\ [][NextCompile]_vars

\* ---------------------------------------------------------------------
\* C14  What StructTypeSpec.compile rejects
\* ---------------------------------------------------------------------

C14_Fields == hval.fields

C14_DuplicateName ==
  \E i, j \in 1..Len(C14_Fields) : i < j /\ C14_Fields[i].name = C14_Fields[j].name

C14_DuplicateId ==
  \E i, j \in 1..Len(C14_Fields) :
    i < j /\ C14_Fields[i].id # None /\ C14_Fields[i].id = C14_Fields[j].id

C14_NoId == \E i \in 1..Len(C14_Fields) : C14_Fields[i].id = None

C14_NoRequiredness == \E i \in 1..Len(C14_Fields) : C14_Fields[i].requiredness = None

C14_Rejected ==
  \/ C14_DuplicateName
  \/ C14_DuplicateId
  \/ C14_NoId
  \/ tspec.require_requiredness /\ C14_NoRequiredness

\* C14: StructTypeSpec.compile raises ThriftCompilerError exactly when two
\* fields share a name, two fields share an id, a field has no id, or
\* require_requiredness is true and a field has no requiredness; otherwise
\* it returns a spec with the AST's fields in declaration order, a field
\* without requiredness compiled as optional.
C14_CompileRejects ==
  (pc = "compiled" /\ hval.ast = "struct") =>
    IF C14_Rejected THEN res.err = "ThriftCompilerError"
    ELSE /\ res.err = "ok"
         /\ res.val.name = hval.name
         /\ Len(res.val.fields) = Len(C14_Fields)
         /\ \A i \in 1..Len(C14_Fields) :
              /\ res.val.fields[i].id = C14_Fields[i].id[2]
              /\ res.val.fields[i].name = C14_Fields[i].name
              /\ res.val.fields[i].required = (C14_Fields[i].requiredness = HBool(TRUE))

\* `struct S {2: i32 b; 1: required i32 a}` compiles without
\* require_requiredness, b optional, in the order declared
C14_Witness ==
  /\ pc = "compiled"
  /\ hval.ast = "struct"
  /\ ~tspec.require_requiredness
  /\ res.err = "ok"
  /\ Len(res.val.fields) = 2
  /\ res.val.fields[1].id = 2 /\ ~res.val.fields[1].required
  /\ C14_Fields[1].requiredness = None
  /\ res.val.fields[2].id = 1 /\ res.val.fields[2].required

\* a definition with a repeated id is rejected
C14_WitnessRejected ==
  /\ pc = "compiled"
  /\ hval.ast = "struct"
  /\ C14_DuplicateId /\ ~C14_DuplicateName /\ ~C14_NoRequiredness
  /\ res.err = "ThriftCompilerError"


\* ---------------------------------------------------------------------
\* C15  What UnionTypeSpec.compile rejects
\* ---------------------------------------------------------------------

C15_Required == \E i \in 1..Len(hval.fields) : hval.fields[i].requiredness = HBool(TRUE)

C15_Default == \E i \in 1..Len(hval.fields) : hval.fields[i].default # None

\* every field is optional or without requiredness, and without default
C15_Plain == ~C15_Required /\ ~C15_Default

\* C15: UnionTypeSpec.compile raises ThriftCompilerError when a field is
\* marked required or has a default, when two fields share a name or an
\* id, and when a field has no id; fields marked optional or without
\* requiredness are accepted, and every FieldSpec of a compiled union has
\* required = false and no default.
C15_UnionRejects ==
  (pc = "compiled" /\ hval.ast = "union") =>
    /\ (C15_Required \/ C15_Default \/ C14_DuplicateName \/ C14_DuplicateId \/ C14_NoId)
         => res.err = "ThriftCompilerError"
    /\ (C15_Plain /\ ~C14_DuplicateName /\ ~C14_DuplicateId /\ ~C14_NoId)
         => res.err = "ok"
    /\ res.err = "ok" =>
         /\ Len(res.val.fields) = Len(hval.fields)
         /\ \A i \in 1..Len(res.val.fields) :
              ~res.val.fields[i].required /\ res.val.fields[i].default_value = None

\* `union U {1: optional i32 a; 2: i32 b}` compiles
C15_Witness ==
  /\ pc = "compiled"
  /\ hval.ast = "union"
  /\ Len(hval.fields) = 2
  /\ hval.fields[1].requiredness = HBool(FALSE)
  /\ hval.fields[2].requiredness = None
  /\ res.err = "ok"
  /\ Len(res.val.fields) = 2

\* `union U {1: required i32 a}` is rejected
C15_WitnessRequired ==
  /\ pc = "compiled"
  /\ hval.ast = "union"
  /\ Len(hval.fields) = 1
  /\ C15_Required /\ ~C15_Default /\ ~C14_NoId
  /\ res.err = "ThriftCompilerError"


\* ---------------------------------------------------------------------
\* C16  Field ids and names are unique in a compiled spec
\* ---------------------------------------------------------------------

\* no two of the FieldSpecs share an id and no two share a name
C16_Unique(fields) ==
  \A i, j \in 1..Len(fields) :
    i # j => fields[i].id # fields[j].id /\ fields[i].name # fields[j].name

\* the struct and union specs a successful compile has produced
C16_Compiled ==
  IF pc # "compiled" \/ res.err # "ok" THEN {}
  ELSE IF hval.ast \in {"struct", "union"} THEN {res.val.fields}
  ELSE IF hval.ast # "function" THEN {}
  ELSE {res.val.args_spec.fields}
         \cup (IF res.val.result_spec = NoSpec THEN {} ELSE {res.val.result_spec.fields})

\* C16: in every struct or union spec a successful compile produces, the
\* implicit request struct and response union of a function included, no
\* two FieldSpecs share an id and no two share a name.
C16_FieldsUnique == \A fields \in C16_Compiled : C16_Unique(fields)

\* the part of C16 that holds: declared structs and unions
C16_DeclaredUnique ==
  (pc = "compiled" /\ res.err = "ok" /\ hval.ast \in {"struct", "union"})
    => C16_Unique(res.val.fields)

\* `void f(1: i32 a, 1: i32 success)` compiles into a request struct with
\* two fields of id 1
C16_Divergence ==
  /\ pc = "compiled"
  /\ hval.ast = "function"
  /\ res.err = "ok"
  /\ Len(res.val.args_spec.fields) = 2
  /\ res.val.args_spec.fields[1].id = res.val.args_spec.fields[2].id

\* `i32 f() throws (0: NotFound a)` compiles into a response union with
\* two fields of id 0
C16_DivergenceResponse ==
  /\ pc = "compiled"
  /\ hval.ast = "function"
  /\ res.err = "ok"
  /\ res.val.result_spec # NoSpec
  /\ Len(res.val.result_spec.fields) = 2
  /\ res.val.result_spec.fields[1].name = "success"
  /\ res.val.result_spec.fields[2].name = "a"
  /\ res.val.result_spec.fields[2].id = 0

\* ---------------------------------------------------------------------
\* C17  Oneway functions
\* ---------------------------------------------------------------------

\* C17: FunctionSpec.compile raises ThriftCompilerError for a oneway
\* function with a return type or a declared exception, and a compiled
\* function has no result spec exactly when it is oneway.
C17_Oneway ==
  (pc = "compiled" /\ hval.ast = "function") =>
    /\ (hval.oneway /\ (hval.return_type # AstVoid \/ hval.exceptions # <<>>))
         => res.err = "ThriftCompilerError"
    /\ res.err = "ok" => ((res.val.result_spec = NoSpec) <=> hval.oneway)

\* `oneway void f(1: i32 a)` compiles without a result spec
C17_Witness ==
  /\ pc = "compiled"
  /\ hval.ast = "function"
  /\ hval.oneway
  /\ Len(hval.parameters) = 1
  /\ res.err = "ok"
  /\ res.val.result_spec = NoSpec

\* `oneway i32 f()` is rejected
C17_WitnessRejected ==
  /\ pc = "compiled"
  /\ hval.ast = "function"
  /\ hval.oneway /\ hval.return_type # AstVoid /\ hval.parameters = <<>>
  /\ res.err = "ThriftCompilerError"


\* ---------------------------------------------------------------------
\* C20  Enum compilation and name lookup
\* ---------------------------------------------------------------------

\* the value item i is to have: its explicit value, or one more than the
\* item before it, or 0 if it is the first
RECURSIVE C20_Value(_)
C20_Value(i) ==
  IF hval.items[i].value # None THEN hval.items[i].value[2]
  ELSE IF i = 1 THEN 0 ELSE C20_Value(i - 1) + 1

C20_DuplicateName ==
  \E i, j \in 1..Len(hval.items) : i < j /\ hval.items[i].name = hval.items[j].name

\* the items, in declaration order, whose value is v
C20_Having(v) == {i \in 1..Len(hval.items) : C20_Value(i) = v}

C20_First(v) == CHOOSE i \in C20_Having(v) : \A j \in C20_Having(v) : i <= j

\* compile rejects exactly the enums with a repeated name and gives every
\* item of the others its value
C20_Compiles ==
  (pc \in {"compiled", "named"} /\ hval.ast = "enum") =>
    IF C20_DuplicateName THEN res.err = "ThriftCompilerError"
    ELSE /\ res.err = "ok"
         /\ Len(res.val.items) = Len(hval.items)
         /\ \A i \in 1..Len(hval.items) :
              res.val.items[i] = <<hval.items[i].name, C20_Value(i)>>

\* C20 (as stated): compile numbers the items, rejects repeated names and
\* accepts repeated values, and name_of(v) is the name of the first item
\* in declaration order whose value is v, or None if there is none.
C20_NameOfFirst ==
  /\ C20_Compiles
  /\ (pc = "named" /\ hval.ast = "enum") =>
       tspec.name = IF C20_Having(tspec.value) = {} THEN None
                    ELSE HText(hval.items[C20_First(tspec.value)].name)

\* C20 (amended): compile numbers the items, rejects repeated names and
\* accepts repeated values; name_of(v) is None if no item has value v and
\* otherwise the name of an item whose value is v, the first such item in
\* declaration order where dicts keep insertion order (Python 3.7 on).
C20_NameOfSome ==
  /\ C20_Compiles
  /\ (pc = "named" /\ hval.ast = "enum") =>
       IF C20_Having(tspec.value) = {} THEN tspec.name = None
       ELSE /\ \E i \in C20_Having(tspec.value) : tspec.name = HText(hval.items[i].name)
            /\ py = 3 => tspec.name = HText(hval.items[C20_First(tspec.value)].name)

\* `enum E {A = 1, B = 1}` compiles and name_of(1) returns A
C20_Witness ==
  /\ pc = "named"
  /\ hval.ast = "enum"
  /\ Len(hval.items) = 2
  /\ C20_Value(1) = 1 /\ C20_Value(2) = 1
  /\ tspec.value = 1
  /\ tspec.name = HText(hval.items[1].name)

\* `enum E {A, B}`: B gets 1
C20_WitnessAuto ==
  /\ pc = "named"
  /\ hval.ast = "enum"
  /\ Len(hval.items) = 2
  /\ hval.items[1].value = None /\ hval.items[2].value = None
  /\ res.val.items[2][2] = 1
  /\ tspec.value = 1
  /\ tspec.name = HText(hval.items[2].name)


\* =====================================================================
\* Scenario 6: linking the specs of a scope
\* =====================================================================
\*
\* heap holds the spec objects, numbered from 1; tspec is the scope's
\* type_specs, from names to objects; insts is the stack of link calls in
\* progress; res holds the value the last call returned; hval holds what
\* the linker has left to do and, for each object, what its link returned
\* first (0: it has not returned).

MaxDepth == 10   \* calls on the stack before the interpreter gives up

\* a service's lookup table before link has built it: `self._functions =
\* None`
NoIndex == [bound |-> FALSE, items |-> <<>>]

\* a spec object as its constructor leaves it.  parent is the reference a
\* service holds to the service it extends, return_spec the return type of
\* a function's result spec (0: there is none), functions_by_name the
\* _functions of a service.
Obj(kind, name, children) ==
  [kind |-> kind, name |-> name, linked |-> FALSE, surface |-> FALSE,
   children |-> children, parent |-> 0, return_spec |-> 0,
   functions_by_name |-> NoIndex]

\* ServiceSpec(name, functions, parent)
ServiceObj(name, functions, parent) == [Obj("service", name, functions) EXCEPT !.parent = parent]

\* FunctionResultSpec(name, return_spec, exceptions): its fields are the
\* field `success` of the return type, if there is one, and the exceptions
ResultObj(name, return_spec, fields) ==
  [Obj("result", name, fields) EXCEPT !.return_spec = return_spec]

\* the specs whose link is guarded by the linked flag.  The children of a
\* function are its result spec, if it has one, and its args spec, in the
\* order in which FunctionSpec.link links them.
Guarded == {"struct", "union", "list", "field", "function", "service"}

\* union Tree {1: Leaf leaf; 2: Branch branch}
\* struct Leaf {1: i32 v}
\* struct Branch {1: Tree left; 2: Tree right}
TreeHeap ==
  << Obj("union", "Tree", <<2, 3>>), Obj("field", "leaf", <<4>>), Obj("field", "branch", <<5>>),
     Obj("ref", "Leaf", <<>>), Obj("ref", "Branch", <<>>),
     Obj("struct", "Leaf", <<7>>), Obj("field", "v", <<8>>), Obj("i32", "i32", <<>>),
     Obj("struct", "Branch", <<10, 11>>), Obj("field", "left", <<12>>),
     Obj("field", "right", <<13>>), Obj("ref", "Tree", <<>>), Obj("ref", "Tree", <<>>) >>

TreeScope == [n \in {"Tree", "Leaf", "Branch"} |->
                IF n = "Tree" THEN 1 ELSE IF n = "Leaf" THEN 6 ELSE 9]

\* typedef list<Node> Nodes
\* struct Node {1: Nodes children}
NodesHeap ==
  << Obj("typedef", "Nodes", <<2>>), Obj("list", "list", <<3>>), Obj("ref", "Node", <<>>),
     Obj("struct", "Node", <<5>>), Obj("field", "children", <<6>>), Obj("ref", "Nodes", <<>>) >>

NodesScope == [n \in {"Nodes", "Node"} |-> IF n = "Nodes" THEN 1 ELSE 4]

\* typedef i32 Id
\* typedef Id Key
\* struct S {1: Key k}
KeyHeap ==
  << Obj("typedef", "Id", <<2>>), Obj("i32", "i32", <<>>), Obj("typedef", "Key", <<4>>),
     Obj("ref", "Id", <<>>), Obj("struct", "S", <<6>>), Obj("field", "k", <<7>>),
     Obj("ref", "Key", <<>>) >>

KeyScope == [n \in {"Id", "Key", "S"} |-> IF n = "Id" THEN 1 ELSE IF n = "Key" THEN 3 ELSE 5]

\* typedef B A
\* typedef A B
LoopHeap ==
  << Obj("typedef", "A", <<2>>), Obj("ref", "B", <<>>),
     Obj("typedef", "B", <<4>>), Obj("ref", "A", <<>>) >>

LoopScope == [n \in {"A", "B"} |-> IF n = "A" THEN 1 ELSE 3]

\* struct Leaf {1: i32 v}
\* exception Oops {}
\* service Parent { oneway void ping(), oneway void stop() }
\* service Child extends Parent { Leaf get(1: Leaf k) throws (1: Oops e) }
ServiceHeap ==
  << ServiceObj("Child", <<3>>, 2), Obj("sref", "Parent", <<>>),
     Obj("function", "get", <<4, 9>>),
     ResultObj("Child_get_response", 6, <<5, 7>>),
     Obj("field", "success", <<6>>), Obj("ref", "Leaf", <<>>),
     Obj("field", "e", <<8>>), Obj("ref", "Oops", <<>>),
     Obj("args", "Child_get_request", <<10>>), Obj("field", "k", <<11>>),
     Obj("ref", "Leaf", <<>>),
     Obj("struct", "Leaf", <<13>>), Obj("field", "v", <<14>>), Obj("i32", "i32", <<>>),
     Obj("struct", "Oops", <<>>),
     ServiceObj("Parent", <<17, 19>>, 0), Obj("function", "ping", <<18>>),
     Obj("args", "Parent_ping_request", <<>>),
     Obj("function", "stop", <<20>>), Obj("args", "Parent_stop_request", <<>>) >>

ServiceScope == [n \in {"Child", "Parent", "Leaf", "Oops"} |->
                   IF n = "Child" THEN 1 ELSE IF n = "Parent" THEN 16
                   ELSE IF n = "Leaf" THEN 12 ELSE 15]

\* struct T {1: Missing m}
\* service Orphan extends Nobody {}
DanglingHeap ==
  << Obj("struct", "T", <<2>>), Obj("field", "m", <<3>>), Obj("ref", "Missing", <<>>),
     ServiceObj("Orphan", <<>>, 5), Obj("sref", "Nobody", <<>>) >>

DanglingScope == [n \in {"T", "Orphan"} |-> IF n = "T" THEN 1 ELSE 4]

Scopes ==
  { <<TreeHeap, TreeScope>>, <<NodesHeap, NodesScope>>, <<KeyHeap, KeyScope>>,
    <<LoopHeap, LoopScope>>, <<ServiceHeap, ServiceScope>>,
    <<DanglingHeap, DanglingScope>> }

\* the characters of the function names of the scopes
NameChars(name) ==
  CASE name = "get" -> <<103, 101, 116>>
    [] name = "ping" -> <<112, 105, 110, 103>>
    [] name = "stop" -> <<115, 116, 111, 112>>

\* the names lookup is called with: text or bytes
LookupNames ==
  { HText(NameChars("get")), HBytes(NameChars("get")),
    HText(NameChars("ping")), HBytes(NameChars("ping")),
    HBytes(NameChars("stop")), HText(<<233>>), HBytes(<<233>>), HBytes(<<>>) }

NoLookup == [service |-> 0, name |-> HBytes(<<>>), found |-> 0]

InitLink ==
  /\ \E s \in Scopes : heap = s[1] /\ tspec = s[2]
  /\ insts = <<>>
  /\ hval = [todo |-> DOMAIN tspec, results |-> {}, returned |-> [o \in 1..Len(heap) |-> 0]]
  /\ res = [ret |-> 0, root |-> "none", err |-> "ok", before |-> <<>>, target |-> 0]
  /\ pc = "linking"
  /\ rb_data = <<>> /\ rb_offset = 0 /\ rb_last = NoCall
  /\ msg = NoLookup /\ wb = Idle /\ py = Idle

Frame(obj) == [obj |-> obj, at |-> "enter", i |-> 1, acc |-> <<>>]

Top == insts[Len(insts)]

Running == pc \in {"linking", "relinking"} /\ insts # <<>>

\* the call on top of the stack returns value
Return(value) ==
  /\ insts' = SubSeq(insts, 1, Len(insts) - 1)
  /\ res' = [res EXCEPT !.ret = value]
  /\ hval' = [hval EXCEPT !.returned[Top.obj] = IF @ = 0 THEN value ELSE @]
  /\ pc' = pc

\* the call on top of the stack calls obj.link(scope) and waits at `at`;
\* a call too many ends the whole link with a RecursionError
CallLink(obj, at) ==
  /\ IF Len(insts) >= MaxDepth
       THEN /\ insts' = <<>>
            /\ res' = [res EXCEPT !.err = "RecursionError"]
            /\ pc' = "failed"
       ELSE /\ insts' = Append([insts EXCEPT ![Len(insts)].at = at], Frame(obj))
            /\ res' = res
            /\ pc' = pc
  /\ hval' = hval

\* TypeSpecLinker.link: the next of scope.type_specs is linked
LinkRoot(name) ==
  /\ pc = "linking" /\ insts = <<>> /\ res.root = "none"
  /\ name \in hval.todo
  /\ insts' = <<Frame(tspec[name])>>
  /\ res' = [res EXCEPT !.root = name]
  /\ UNCHANGED <<rb_data, rb_offset, rb_last, msg, wb, pc, tspec, hval, py, heap>>

\* TypeSpecLinker.link: the spec link returned is kept under the name, and
\* after the last one the scope's type_specs are replaced by those kept
RootDone ==
  /\ pc = "linking" /\ insts = <<>> /\ res.root # "none"
  /\ hval' = [hval EXCEPT !.todo = @ \ {res.root},
                          !.results = @ \cup {<<res.root, res.ret>>}]
  /\ res' = [res EXCEPT !.root = "none"]
  /\ IF hval'.todo = {}
       THEN /\ pc' = "linked"
            /\ tspec' = [n \in DOMAIN tspec |->
                           (CHOOSE r \in hval'.results : r[1] = n)[2]]
       ELSE UNCHANGED <<pc, tspec>>
  /\ UNCHANGED <<rb_data, rb_offset, rb_last, msg, wb, py, heap, insts>>

\* a link that would not look at the linked flag
EnterGuarded_NoFlag ==
  /\ Running /\ Top.at = "enter" /\ heap[Top.obj].kind \in Guarded
  /\ heap' = [heap EXCEPT ![Top.obj].linked = TRUE]
  /\ insts' = [insts EXCEPT ![Len(insts)].at =
                 IF heap[Top.obj].parent # 0 THEN "parent" ELSE "loop"]
  /\ UNCHANGED <<rb_data, rb_offset, rb_last, msg, wb, pc, tspec, hval, res, py>>

\* link of a struct, union, container, field, function or service: `if
\* not self.linked: self.linked = True`, else `return self`; a service
\* with a parent resolves it first
EnterGuarded ==
  /\ Running /\ Top.at = "enter" /\ heap[Top.obj].kind \in Guarded
  /\ IF heap[Top.obj].linked
       THEN Return(Top.obj) /\ heap' = heap
       ELSE /\ heap' = [heap EXCEPT ![Top.obj].linked = TRUE]
            /\ insts' = [insts EXCEPT ![Len(insts)].at =
                           IF heap[Top.obj].parent # 0 THEN "parent" ELSE "loop"]
            /\ UNCHANGED <<pc, hval, res>>
  /\ UNCHANGED <<rb_data, rb_offset, rb_last, msg, wb, tspec, py>>

\* `field.link(scope)` for the next field, `self.vspec.link(scope)`,
\* `self.spec.link(scope)`
LinkChild ==
  /\ Running /\ Top.at = "loop" /\ Top.i <= Len(heap[Top.obj].children)
  /\ CallLink(heap[Top.obj].children[Top.i], "recv")
  /\ UNCHANGED <<rb_data, rb_offset, rb_last, msg, wb, tspec, py, heap>>

\* the child's link has returned the spec that takes the child's place
ReceiveChild ==
  /\ Running /\ Top.at = "recv"
  /\ insts' = [insts EXCEPT ![Len(insts)] =
                 [@ EXCEPT !.at = "loop", !.i = @ + 1, !.acc = Append(@, res.ret)]]
  /\ UNCHANGED <<rb_data, rb_offset, rb_last, msg, wb, pc, tspec, hval, res, py, heap>>

\* the specs that have a surface
Surfaces == {"struct", "union", "args", "result", "function", "service"}

\* self._functions[name] = f
index_put(items, name, f) ==
  IF \E i \in 1..Len(items) : items[i][1] = name
    THEN [i \in 1..Len(items) |-> IF items[i][1] = name THEN <<name, f>> ELSE items[i]]
    ELSE Append(items, <<name, f>>)

\* ServiceSpec.link: the index for lookup over self.functions, each name
\* encoded to bytes
RECURSIVE build_index(_, _, _)
build_index(functions, i, items) ==
  IF i > Len(functions)
    THEN [bound |-> TRUE, items |-> items]
    ELSE build_index(functions, i + 1,
           index_put(items, utf8_encode(NameChars(heap[functions[i]].name)), functions[i]))

\* ServiceSpec.lookup: self._functions.get(name, None), the name encoded
\* if it is text; 0 is None
lookup(service, name) ==
  LET key == IF name[1] = "text" THEN utf8_encode(name[2]) ELSE name[2]
      items == heap[service].functions_by_name.items
      hits == {i \in 1..Len(items) : items[i][1] = key}
  IN  IF hits = {} THEN 0 ELSE items[CHOOSE i \in hits : TRUE][2]

\* the linked children are stored, the surface of a struct, union,
\* function or service is bound (and a service's lookup table built), and
\* link returns self; FunctionArgsSpec.link goes on to the result spec
Finish ==
  /\ Running /\ Top.at = "loop" /\ Top.i > Len(heap[Top.obj].children)
  /\ heap' = [heap EXCEPT ![Top.obj] =
                [@ EXCEPT !.children = Top.acc,
                          !.surface = (@ \/ heap[Top.obj].kind \in Surfaces),
                          !.functions_by_name =
                             IF heap[Top.obj].kind = "service"
                               THEN build_index(Top.acc, 1, <<>>)
                               ELSE @]]
  /\ IF heap[Top.obj].kind = "args"
       THEN /\ insts' = [insts EXCEPT ![Len(insts)].at = "result"]
            /\ UNCHANGED <<pc, hval, res>>
       ELSE Return(Top.obj)
  /\ UNCHANGED <<rb_data, rb_offset, rb_last, msg, wb, tspec, py>>

\* Scope.resolve_service_spec: the service of that name, linked, or a
\* ThriftCompilerError if the scope has none
resolve_service_spec(name) ==
  IF name \in DOMAIN tspec
    THEN CallLink(tspec[name], "recv_parent")
    ELSE /\ insts' = <<>>
         /\ res' = [res EXCEPT !.err = "ThriftCompilerError"]
         /\ pc' = "failed"
         /\ hval' = hval

\* ServiceSpec.link: self.parent = scope.resolve_service_spec(...)
ResolveParent ==
  /\ Running /\ Top.at = "parent"
  /\ resolve_service_spec(heap[heap[Top.obj].parent].name)
  /\ UNCHANGED <<rb_data, rb_offset, rb_last, msg, wb, tspec, py, heap>>

ReceiveParent ==
  /\ Running /\ Top.at = "recv_parent"
  /\ heap' = [heap EXCEPT ![Top.obj].parent = res.ret]
  /\ insts' = [insts EXCEPT ![Len(insts)].at = "loop"]
  /\ UNCHANGED <<rb_data, rb_offset, rb_last, msg, wb, pc, tspec, hval, res, py>>

\* the exception fields of a result spec: its fields but `success`
exception_specs(obj) ==
  IF heap[obj].return_spec # 0 THEN Tail(heap[obj].children) ELSE heap[obj].children

\* FunctionResultSpec.link: `self.return_spec = self.return_spec.link(scope)`
\* if there is a return type
EnterResult ==
  /\ Running /\ Top.at = "enter" /\ heap[Top.obj].kind = "result"
  /\ IF heap[Top.obj].return_spec # 0
       THEN CallLink(heap[Top.obj].return_spec, "recv_return")
       ELSE /\ insts' = [insts EXCEPT ![Len(insts)].at = "excs"]
            /\ UNCHANGED <<pc, hval, res>>
  /\ UNCHANGED <<rb_data, rb_offset, rb_last, msg, wb, tspec, py, heap>>

ReceiveReturn ==
  /\ Running /\ Top.at = "recv_return"
  /\ heap' = [heap EXCEPT ![Top.obj].return_spec = res.ret]
  /\ insts' = [insts EXCEPT ![Len(insts)].at = "excs"]
  /\ UNCHANGED <<rb_data, rb_offset, rb_last, msg, wb, pc, tspec, hval, res, py>>

\* FunctionResultSpec.link: [e.link(scope) for e in self.exception_specs]
LinkException ==
  /\ Running /\ Top.at = "excs" /\ Top.i <= Len(exception_specs(Top.obj))
  /\ CallLink(exception_specs(Top.obj)[Top.i], "recv_exc")
  /\ UNCHANGED <<rb_data, rb_offset, rb_last, msg, wb, tspec, py, heap>>

ReceiveException ==
  /\ Running /\ Top.at = "recv_exc"
  /\ insts' = [insts EXCEPT ![Len(insts)] = [@ EXCEPT !.at = "excs", !.i = @ + 1]]
  /\ UNCHANGED <<rb_data, rb_offset, rb_last, msg, wb, pc, tspec, hval, res, py, heap>>

\* FunctionResultSpec.link: return super(FunctionResultSpec, self).link(scope),
\* which is UnionTypeSpec.link
SuperLink ==
  /\ Running /\ Top.at = "excs" /\ Top.i > Len(exception_specs(Top.obj))
  /\ IF heap[Top.obj].linked
       THEN Return(Top.obj) /\ heap' = heap
       ELSE /\ heap' = [heap EXCEPT ![Top.obj].linked = TRUE]
            /\ insts' = [insts EXCEPT ![Len(insts)] = [@ EXCEPT !.at = "loop", !.i = 1]]
            /\ UNCHANGED <<pc, hval, res>>
  /\ UNCHANGED <<rb_data, rb_offset, rb_last, msg, wb, tspec, py>>

\* FunctionArgsSpec.link: spec = super(FunctionArgsSpec, self).link(scope),
\* which is StructTypeSpec.link
EnterArgs ==
  /\ Running /\ Top.at = "enter" /\ heap[Top.obj].kind = "args"
  /\ heap' = [heap EXCEPT ![Top.obj].linked = TRUE]
  /\ insts' = [insts EXCEPT ![Len(insts)].at =
                 IF heap[Top.obj].linked THEN "result" ELSE "loop"]
  /\ UNCHANGED <<rb_data, rb_offset, rb_last, msg, wb, pc, tspec, hval, res, py>>

\* the function whose link called the link on top, and its result spec
\* (0: it has none)
function_of_call == insts[Len(insts) - 1].obj

result_spec(function) ==
  IF Len(heap[function].children) = 2 THEN heap[function].children[1] ELSE 0

\* FunctionArgsSpec.link: `if self.function.result_spec is not None:
\* result_spec = self.function.result_spec.link(scope, function)`
ArgsLinkResult ==
  /\ Running /\ Top.at = "result"
  /\ IF result_spec(function_of_call) # 0
       THEN CallLink(result_spec(function_of_call), "recv_result")
       ELSE Return(Top.obj)
  /\ UNCHANGED <<rb_data, rb_offset, rb_last, msg, wb, tspec, py, heap>>

\* FunctionArgsSpec.link: spec.surface.result_type = result_type; return spec
ArgsDone ==
  /\ Running /\ Top.at = "recv_result"
  /\ Return(Top.obj)
  /\ UNCHANGED <<rb_data, rb_offset, rb_last, msg, wb, tspec, py, heap>>

\* PrimitiveTypeSpec.link: return self
EnterPrimitive ==
  /\ Running /\ Top.at = "enter" /\ heap[Top.obj].kind = "i32"
  /\ Return(Top.obj)
  /\ UNCHANGED <<rb_data, rb_offset, rb_last, msg, wb, tspec, py, heap>>

\* TypedefTypeSpec.link: return self.target_spec.link(scope)
EnterTypedef ==
  /\ Running /\ Top.at = "enter" /\ heap[Top.obj].kind = "typedef"
  /\ CallLink(heap[Top.obj].children[1], "wait")
  /\ UNCHANGED <<rb_data, rb_offset, rb_last, msg, wb, tspec, py, heap>>

\* Scope.resolve_type_spec: the spec of that name, linked, or a
\* ThriftCompilerError if the scope has none
resolve_type_spec(name) ==
  IF name \in DOMAIN tspec
    THEN CallLink(tspec[name], "wait")
    ELSE /\ insts' = <<>>
         /\ res' = [res EXCEPT !.err = "ThriftCompilerError"]
         /\ pc' = "failed"
         /\ hval' = hval

\* TypeReference.link: return scope.resolve_type_spec(self.name, self.lineno)
EnterReference ==
  /\ Running /\ Top.at = "enter" /\ heap[Top.obj].kind = "ref"
  /\ resolve_type_spec(heap[Top.obj].name)
  /\ UNCHANGED <<rb_data, rb_offset, rb_last, msg, wb, tspec, py, heap>>

\* a typedef or reference that would return itself
ReturnTarget_Self ==
  /\ Running /\ Top.at = "wait"
  /\ Return(Top.obj)
  /\ UNCHANGED <<rb_data, rb_offset, rb_last, msg, wb, tspec, py, heap>>

\* the link a typedef or a reference called has returned; they return
\* what it returned
ReturnTarget ==
  /\ Running /\ Top.at = "wait"
  /\ Return(res.ret)
  /\ UNCHANGED <<rb_data, rb_offset, rb_last, msg, wb, tspec, py, heap>>

\* after the scope is linked, link(scope) is called on a spec once more
\* (the link of an args or result spec is called by its function only)
Relink(obj) ==
  /\ pc \in {"linked", "relinked"}
  /\ heap[obj].kind \notin {"args", "result", "sref"}
  /\ pc' = "relinking"
  /\ insts' = <<Frame(obj)>>
  /\ res' = [res EXCEPT !.before = heap, !.target = obj]
  /\ UNCHANGED <<rb_data, rb_offset, rb_last, msg, wb, tspec, hval, py, heap>>

\* that call has returned
RelinkDone ==
  /\ pc = "relinking" /\ insts = <<>>
  /\ pc' = "relinked"
  /\ UNCHANGED <<rb_data, rb_offset, rb_last, msg, wb, tspec, hval, res, py, heap, insts>>

\* after the scope is linked, lookup(name) is called on a service
Lookup(service, name) ==
  /\ pc \in {"linked", "relinked"}
  /\ heap[service].kind = "service"
  /\ msg' = [service |-> service, name |-> name, found |-> lookup(service, name)]
  /\ UNCHANGED <<rb_data, rb_offset, rb_last, wb, pc, tspec, hval, res, py, heap, insts>>

LinkSteps ==
  \/ \E name \in DOMAIN tspec : LinkRoot(name)
  \/ RootDone
  \/ EnterGuarded
  \/ LinkChild
  \/ ReceiveChild
  \/ Finish
  \/ EnterPrimitive
  \/ EnterTypedef
  \/ EnterReference
  \/ ReturnTarget
  \/ ResolveParent
  \/ ReceiveParent
  \/ EnterResult
  \/ ReceiveReturn
  \/ LinkException
  \/ ReceiveException
  \/ SuperLink
  \/ EnterArgs
  \/ ArgsLinkResult
  \/ ArgsDone
  \/ RelinkDone

NextLink ==
  \/ LinkSteps
  \/ \E obj \in 1..Len(heap) : Relink(obj)
  \/ \E service \in 1..Len(heap), name \in LookupNames : Lookup(service, name)

\* a call in progress goes on: the interpreter does not stop by itself
SpecLink == InitLink /\ [][NextLink]_vars /\ WF_vars(LinkSteps)


\* ---------------------------------------------------------------------
\* C18  Link terminates and links everything
\* ---------------------------------------------------------------------

\* every name a reference of the scope refers to is defined in it
Resolvable ==
  \A o \in 1..Len(heap) : heap[o].kind \in {"ref", "sref"} => heap[o].name \in DOMAIN tspec

\* every struct, union, container, field, function and service is linked
\* and every struct and union has its surface
C18_AllLinked ==
  \A o \in 1..Len(heap) :
    /\ heap[o].kind \in Guarded => heap[o].linked
    /\ heap[o].kind \in Surfaces => heap[o].surface

\* Termination itself: whatever the scope, cyclic or with typedefs,
\* linking every root eventually returns with every spec linked.
C18_Terminates == <>(pc = "linked" /\ C18_AllLinked)

\* C18, as the outcome of a run: linking a scope in which every name
\* referred to is defined does not fail, and when it has returned every
\* spec is linked and has its surface.
C18_LinksAll ==
  Resolvable =>
    /\ pc # "failed"
    /\ pc = "linked" => C18_AllLinked

\* the part that holds: scopes without a cycle of typedefs
C18_LinksAllButLoops ==
  heap[1].name # "A" => C18_LinksAll

\* `typedef B A; typedef A B`: link ends in a RecursionError
C18_Divergence ==
  /\ pc = "failed"
  /\ res.err = "RecursionError"
  /\ heap[1].kind = "typedef" /\ heap[3].kind = "typedef"

\* ---------------------------------------------------------------------
\* C19  Link is idempotent
\* ---------------------------------------------------------------------

\* a call of link has just been made on a spec whose link is in progress
C19_Reentered ==
  /\ Running
  /\ Top.at = "enter"
  /\ \E k \in 1..(Len(insts) - 1) : insts[k].obj = Top.obj

\* the call on top returns its own spec at once and changes nothing
C19_ReturnsAtOnce ==
  /\ insts' = SubSeq(insts, 1, Len(insts) - 1)
  /\ res'.ret = Top.obj
  /\ heap' = heap

\* a second link returns what the first returned and changes no spec
C19_Idempotent ==
  pc = "relinked" =>
    /\ heap = res.before
    /\ res.ret = hval.returned[res.target]

C19_WitnessReentered ==
  /\ C19_Reentered
  /\ heap[Top.obj].name = "Tree" /\ heap[Top.obj].kind = "union"
  /\ Len(insts) > 4

\* ---------------------------------------------------------------------
\* C23  Link ordering
\* ---------------------------------------------------------------------

\* the specs that have a linked flag
C23_Flagged == Guarded \cup {"args", "result"}

\* in this step the link on top of the stack calls the link of another spec
C23_Calls == insts # <<>> /\ Len(insts') = Len(insts) + 1

\* a spec that calls a link has set its linked flag
C23_CallerLinked ==
  (C23_Calls /\ heap[Top.obj].kind \in C23_Flagged) => heap[Top.obj].linked

\* when the surface of a struct or union is bound, its fields are linked
C23_SurfaceAfterFields ==
  \A o \in 1..Len(heap) :
    (heap[o].kind \in {"struct", "union", "args", "result"}
       /\ ~heap[o].surface /\ heap'[o].surface)
      => \A i \in 1..Len(heap'[o].children) : heap'[heap'[o].children[i]].linked

\* when a service calls the link of a function, its parent, if it has
\* one, is resolved and its link has been entered
C23_ParentBeforeFunctions ==
  (C23_Calls /\ heap[Top.obj].kind = "service" /\ Top.at = "loop")
    => \/ heap[Top.obj].parent = 0
       \/ /\ heap[heap[Top.obj].parent].kind = "service"
          /\ heap[heap[Top.obj].parent].linked

\* C23: in every execution of link, a struct, union, container, function
\* or service spec sets its linked flag before it calls link on any child;
\* the surface of a struct or union is built only after all of its fields
\* are linked; a service links its parent before its functions.
C23_LinkOrdering ==
  [][C23_CallerLinked /\ C23_SurfaceAfterFields /\ C23_ParentBeforeFunctions]_vars

\* the same with the response union of a function left out of the first
\* clause: this holds
C23_OrderingButResult ==
  [][/\ (C23_Calls /\ heap[Top.obj].kind \in C23_Flagged \ {"result"})
          => heap[Top.obj].linked
     /\ C23_SurfaceAfterFields
     /\ C23_ParentBeforeFunctions]_vars

\* C23 divergence: the link of Leaf, the return type of `get`, has been
\* called by the link of the response union Child_get_response, whose
\* linked flag is not set
C23_Divergence ==
  /\ Running /\ Len(insts) >= 2
  /\ Top.at = "enter"
  /\ heap[Top.obj].kind = "ref" /\ heap[Top.obj].name = "Leaf"
  /\ heap[insts[Len(insts) - 1].obj].name = "Child_get_response"
  /\ insts[Len(insts) - 1].at = "recv_return"
  /\ ~heap[insts[Len(insts) - 1].obj].linked

\* ---------------------------------------------------------------------
\* C24  References are eliminated by linking
\* ---------------------------------------------------------------------

\* the specs a spec holds: its fields, element spec, spec of a field,
\* result and args specs, functions, return type and parent
C24_Held(o) ==
  {heap[o].children[i] : i \in 1..Len(heap[o].children)}
    \cup ({heap[o].return_spec, heap[o].parent} \ {0})

RECURSIVE C24_Closure(_)
C24_Closure(S) ==
  LET more == S \cup UNION {C24_Held(o) : o \in S}
  IN  IF more = S THEN S ELSE C24_Closure(more)

\* the specs reachable from the specs the scope holds
C24_Reachable == C24_Closure({tspec[n] : n \in DOMAIN tspec})

\* once the scope is linked no reference and no typedef is reachable, and
\* a scope with an unresolved name is not linked and fails with
\* ThriftCompilerError only
C24_NoReferences ==
  /\ pc \in {"linked", "relinking", "relinked"} =>
       \A o \in C24_Reachable : heap[o].kind \notin {"ref", "sref", "typedef"}
  /\ ~Resolvable =>
       /\ pc \notin {"linked", "relinking", "relinked"}
       /\ pc = "failed" => res.err = "ThriftCompilerError"

\* C24: after link has returned for every root of the scope, no
\* TypeReference and no TypedefTypeSpec is reachable from a linked spec:
\* every spec of a field, element spec, return_spec and exception spec is a
\* primitive, container, struct, union or exception spec; and the link of
\* a scope with an unresolved name fails with a compile error.
C24_LinkEliminates ==
  /\ []C24_NoReferences
  /\ ~Resolvable ~> (pc = "failed" /\ res.err = "ThriftCompilerError")

\* C24 witness: the scope of the services is linked; the return type of
\* `get`, the spec of its field `success` and of its parameter are the
\* struct Leaf, and the parent of Child is the service Parent
C24_Witness ==
  /\ pc = "linked"
  /\ heap[1].name = "Child" /\ heap[1].parent = 16
  /\ heap[4].return_spec = 12
  /\ heap[5].children = <<12>> /\ heap[10].children = <<12>>
  /\ heap[6].kind = "ref"
  /\ 6 \notin C24_Reachable

\* C24 witness: the link of `struct T {1: Missing m}` has failed
C24_WitnessUnresolved ==
  /\ pc = "failed"
  /\ heap[1].name = "T"
  /\ res.err = "ThriftCompilerError"

(***************************************************************************)
(* Scenario 7: a reader over raw bytes.  A type code and a byte string    *)
(* are given; the value is skipped, read into a wire value, and, for a    *)
(* struct, read by a type spec.  rb_data holds the bytes, hval the type   *)
(* code, tspec the spec whose read_from is called.                         *)
(***************************************************************************)
MaxWire == 5

\* the pieces the images are made of: a struct end or zero, an unknown
\* type code, a known one (bool), 0xFF, and the high bytes of a small count
WireChunks == {<<0>>, <<1>>, <<2>>, <<255>>, <<0, 0, 0>>}

RECURSIVE Joined(_)
Joined(chunks) == IF chunks = <<>> THEN <<>> ELSE chunks[1] \o Joined(Tail(chunks))

WireImages == {Joined(s) : s \in SeqsUpTo(WireChunks, MaxWire)}

\* type codes: known ones, codes outside the table, and one that does not
\* fit in int8_t
WireTypes == {BOOL, I32, BINARY, STRUCT, MAP, SET, LIST, 1, 0 - 1, 258}

WireSpecs == {Item, Body, GetFooResult, NotFound, PingResult}

InitWire ==
  /\ pc = "wire"
  /\ hval \in WireTypes
  /\ rb_data \in WireImages
  /\ tspec \in IF hval = STRUCT THEN WireSpecs ELSE {NoSpec}
  /\ rb_offset = 0 /\ rb_last = NoCall
  /\ res = [skipped |-> NoRes, wval |-> NoRes, direct |-> NoRes]
  /\ py = 3
  /\ wb = <<>> /\ msg = Idle /\ heap = Idle /\ insts = Idle

\* BinaryProtocolReader(ReadBuffer(rb_data)).skip(hval)
SkipTyped ==
  /\ pc = "wire"
  /\ LET s == skip(hval, rb_data, 0)
     IN  /\ res' = [res EXCEPT !.skipped = [err |-> s.err, val |-> None]]
         /\ rb_offset' = s.o
  /\ pc' = "skipped"
  /\ UNCHANGED <<rb_data, rb_last, msg, wb, tspec, hval, py, heap, insts>>

\* protocol.deserialize_value(hval, rb_data), over a ReadBuffer of its own;
\* o is the offset that buffer is left at
ReadTyped ==
  /\ pc = "skipped"
  /\ LET r == deserialize_value(hval, rb_data)
     IN  res' = [res EXCEPT !.wval = [err |-> r.err,
                                      val |-> IF r.err = "ok" THEN r.val ELSE None,
                                      o |-> r.o]]
  /\ pc' = "wire_read"
  /\ UNCHANGED <<rb_data, rb_offset, rb_last, msg, wb, tspec, hval, py, heap, insts>>

\* tspec.read_from(BinaryProtocolReader(ReadBuffer(rb_data)))
ReadFromTyped ==
  /\ pc = "wire_read"
  /\ tspec # NoSpec
  /\ LET r == read_from(tspec, rb_data, 0)
     IN  /\ res' = [res EXCEPT !.direct = Outcome(r)]
         /\ rb_offset' = r.o
  /\ pc' = "struct_read"
  /\ UNCHANGED <<rb_data, rb_last, msg, wb, tspec, hval, py, heap, insts>>

NextWire ==
  \/ SkipTyped
  \/ ReadTyped
  \/ ReadFromTyped

SpecWire == InitWire /\ [][NextWire]_vars

(***************************************************************************)
(* Claims about the primitive form of values.                              *)
(***************************************************************************)

\* from_primitive has returned for the primitive form of a validated value
Restored == pc \in {"restored", "restored_more"}

\* the names of the fields of the instance v of T that are not None
C21_Set(T, v) == {T.fields[i].name : i \in {k \in 1..Len(T.fields) : v[2].vals[k] # None}}

\* the keys of the mapping p
C21_Keys(p) == {p[2][k][1] : k \in 1..Len(p[2])}

Skipped == pc \in {"skipped", "wire_read", "struct_read"}

\* the value has been read into a wire value
WireRead == pc \in {"wire_read", "struct_read"}

\* the type code the first byte of the image holds
C22_FirstType == ToI8(rb_data[1])

\* the image is of a list or set whose element type is outside the table
\* and which has an element to dispatch on
C22_UnknownElement ==
  /\ hval \in {LIST, SET}
  /\ Len(rb_data) >= 5
  /\ C22_FirstType \notin KnownTTypes
  /\ DecI32(SubSeq(rb_data, 2, 5)) > 0

\* the image is of a struct whose first field has a type outside the table
C22_UnknownField ==
  /\ hval = STRUCT
  /\ Len(rb_data) >= 3
  /\ C22_FirstType \notin KnownTTypes \cup {STRUCT_END}

\* C22: a type code outside the closed set {2,3,4,6,8,10,11,12,13,14,15}
\* makes the operation fail with ThriftProtocolError: in
\* deserialize_value(typ, bytes), when a struct field or container element
\* of that type is read into a wire value, and in skip(typ), also when it
\* skips a field or element of that type.
C22_UnknownIsError ==
  /\ (Skipped /\ (hval \notin KnownTTypes \/ C22_UnknownElement \/ C22_UnknownField))
       => res.skipped.err = "ThriftProtocolError"
  /\ (WireRead /\ (hval \notin KnownTTypes \/ C22_UnknownElement \/ C22_UnknownField))
       => res.wval.err = "ThriftProtocolError"

\* C22 divergence: skip(1) over the bytes 02 returned without an error
\* and left the offset at 0
C22_Divergence ==
  /\ pc = "skipped"
  /\ hval = 1
  /\ rb_data = <<2>>
  /\ res.skipped.err = "ok"
  /\ rb_offset = 0

\* C22 divergence: skipping the struct 01 00 01 00, whose one field has the
\* type code 1, returned without an error at the struct end
C22_DivergenceField ==
  /\ pc = "skipped"
  /\ hval = STRUCT
  /\ rb_data = <<1, 0, 1, 0>>
  /\ res.skipped.err = "ok"
  /\ rb_offset = 4

\* C22 divergence: deserialize_value(258, 01) returned the bool True
C22_DivergenceWide ==
  /\ pc = "wire_read"
  /\ hval = 258
  /\ rb_data = <<1>>
  /\ res.wval.err = "ok"
  /\ res.wval.val = WValue(BOOL, TRUE)

\* the wire-value reader raises ThriftProtocolError for every type code of
\* an int8_t outside the closed set, at the top and in a field or element
C22_ReadRaises ==
  (WireRead /\ hval \in (0 - 128)..127
            /\ (hval \notin KnownTTypes \/ C22_UnknownElement \/ C22_UnknownField))
    => res.wval.err = "ThriftProtocolError"

\* the proper prefixes of the image
C25_Prefixes == {SubSeq(rb_data, 1, n) : n \in 0..(Len(rb_data) - 1)}

C25_WitnessTruncated ==
  /\ pc = "wire_read" /\ hval = STRUCT
  /\ rb_data = <<2, 0, 1, 1>>
  /\ res.skipped.err = "EndOfInputError" /\ res.wval.err = "EndOfInputError"

\* a field loop over the image has run to its end without an error: that
\* of skip_struct, or that of read_from on a struct, union or result spec
C29_LoopEnded ==
  /\ hval = STRUCT
  /\ \/ pc = "skipped" /\ res.skipped.err = "ok"
     \/ pc = "struct_read" /\ res.direct.err = "ok"

\* C29: the field loops of read_from and skip_struct stop only at a 0x00
\* field-type byte, having consumed just that byte: a loop that has ended
\* consumed a 0x00 last, and it ended at the first header if and only if
\* the first byte is 0x00 (any other first byte, 0xFF included, makes it
\* go on to a further header)
C29_EndOnlyAtZero ==
  C29_LoopEnded =>
    /\ rb_offset >= 1
    /\ rb_data[rb_offset] = 0
    /\ (rb_offset = 1) <=> (rb_data[1] = 0)
    /\ rb_data[1] # 0 => rb_offset > 3

\* what does hold: a loop that has ended consumed a 0x00 type byte last, or
\* a 0xFF type byte and the two bytes after it
C29_EndAtZeroOrFF ==
  C29_LoopEnded =>
    \/ rb_offset >= 1 /\ rb_data[rb_offset] = 0
    \/ rb_offset >= 3 /\ rb_data[rb_offset - 2] = 255

\* C29 divergence: skip_struct over FF 00 01 returned after three bytes
C29_Divergence ==
  /\ pc = "skipped"
  /\ hval = STRUCT
  /\ rb_data = <<255, 0, 1>>
  /\ res.skipped.err = "ok"
  /\ rb_offset = 3

\* C29 divergence in StructTypeSpec.read_from: the struct read ended at the
\* 0xFF header and left the 0x02 after it
C29_DivergenceStruct ==
  /\ pc = "struct_read"
  /\ tspec = NotFound
  /\ rb_data = <<255, 0, 1, 2>>
  /\ res.direct.err = "ok"
  /\ rb_offset = 3

\* C29 divergence in FunctionResultSpec.read_from
C29_DivergenceResult ==
  /\ pc = "struct_read"
  /\ tspec = PingResult
  /\ rb_data = <<255, 0, 1, 2>>
  /\ res.direct.err = "ok"
  /\ rb_offset = 3

\* a service and the services it inherits from
RECURSIVE C30_Chain(_)
C30_Chain(service) ==
  IF heap[service].parent = 0
    THEN {service}
    ELSE {service} \cup C30_Chain(heap[service].parent)

\* function f has the name given, as text or as its UTF-8 bytes
C30_Named(f, name) ==
  name[2] = IF name[1] = "text"
              THEN NameChars(heap[f].name)
              ELSE utf8_encode(NameChars(heap[f].name))

\* the functions of that name among those of the services given
C30_Functions(services, name) ==
  {f \in 1..Len(heap) :
     /\ heap[f].kind = "function"
     /\ C30_Named(f, name)
     /\ \E s \in services : \E i \in 1..Len(heap[s].children) : heap[s].children[i] = f}

\* lookup has returned the function of that name among the services
\* given, None if there is none, and there is at most one
C30_Found(services) ==
  LET fs == C30_Functions(services, msg.name)
  IN  /\ Cardinality(fs) <= 1
      /\ IF fs = {} THEN msg.found = 0 ELSE msg.found \in fs

\* C30: after a service is linked, lookup(name), the name given as text or
\* as UTF-8 bytes, returns f if and only if f is a function of that name
\* of the service or of a service in its parent chain, and None otherwise;
\* there is at most one such function
C30_LookupInherited ==
  msg.service # 0 => C30_Found(C30_Chain(msg.service))

\* what does hold: lookup returns f if and only if f is a function of that
\* name declared by the service itself
C30_LookupDeclared ==
  msg.service # 0 => C30_Found({msg.service})

\* C30 divergence: Child extends Parent, Parent declares ping, and
\* Child's lookup of `ping` returned None
C30_Divergence ==
  /\ msg.service # 0
  /\ heap[msg.service].name = "Child"
  /\ heap[heap[msg.service].parent].name = "Parent"
  /\ heap[heap[msg.service].parent].linked
  /\ msg.name = HText(NameChars("ping"))
  /\ C30_Functions({heap[msg.service].parent}, msg.name) # {}
  /\ msg.found = 0

\* C30: where the function is the service's own, lookup by text and by
\* bytes finds it: Child's `get` looked up by its bytes
C30_FoundOwn ==
  /\ msg.service # 0
  /\ heap[msg.service].name = "Child"
  /\ msg.name = HBytes(<<103, 101, 116>>)
  /\ msg.found # 0
  /\ heap[msg.found].kind = "function"
  /\ heap[msg.found].name = "get"

====
